---------------------------- MODULE Spec2Model ----------------------------
(***************************************************************************)
(* godash: the metrics collector (SystemCollector: Start, Stop, Collect    *)
(* and its sampling goroutine), the bounded metrics channel, and the       *)
(* terminal UI (UI.Start, UI.Stop, the key handler, the update goroutine). *)
(*                                                                         *)
(* Threads of the model:                                                   *)
(*   - the sampling goroutines spawned by SystemCollector.Start (task i);  *)
(*   - the UI's update goroutine (the consumer of metricsChan);            *)
(*   - the thread inside UI.Start (the tview event loop, which runs the    *)
(*     key handler);                                                       *)
(*   - one API caller, which calls collector.Start, collector.Stop and     *)
(*     UI.Stop one after the other and can block inside Stop.              *)
(* A Go panic ends the process: every action is guarded by panic = "none". *)
(***************************************************************************)
EXTENDS Integers, Sequences, FiniteSets

(* ------------------------------ bounds -------------------------------- *)

\* ticker fires taken by the sampling goroutines (the clock of the model)
MaxTicks == 12
\* ticker fires in a run of the terminal monitor with its keys and stops
MaxUITicks == 5
\* provider read failures over a run
MaxFailures == 1
\* sampling goroutines SystemCollector.Start may spawn over a run
MaxTasks == 2
\* direct calls of SystemCollector.Collect over a run
MaxCollects == 3
(* width in bits of the unsigned counters and rates of the model. The
   program's are uint64; the model keeps their modular arithmetic on a
   narrower word *)
WordBits == 16
\* direct calls of UI.RenderMetrics over a run
MaxRenders == 5

(* ------------------------- program constants -------------------------- *)

\* make(chan metrics.Metric, 10)
ChanCap == 10
\* interval = 100 * time.Millisecond when interval <= 0
MinInterval == 100
\* ui.collector.Start(100*time.Millisecond, ui.metricsChan)
UIInterval == 100
\* runtime.NumCPU() of the modelled host
NumCPU == 2

\* the intervals (ms) a direct caller passes to Start: a non-positive and a positive one
Intervals == {-50, 0, 50}

Tasks == 1..MaxTasks

\* the unsigned values are 0 .. Word - 1
Word == 2 ^ WordBits

\* time.Since(ui.lastMemoryUpdate) >= 5*time.Second (ms)
MemoryCadence == 5000
\* time.Since(ui.lastNetworkUpdate) >= 5*time.Second (ms)
NetworkCadence == 5000
\* time.Since(ui.lastInterfaceUpdate) >= 30*time.Second (ms)
RankingCadence == 30000
\* for i := 0; i < len(netStats) && i < 3; i++
TopN == 3
\* sort.Slice of Go 1.18 on at most 12 elements: one ShellSort pass with gap 6
ShellGap == 6

(* ------------------------------- state -------------------------------- *)

VARIABLES
    running,        \* SystemCollector.running
    stopChan,       \* SystemCollector.stopChan (unbuffered): "open" | "closed"
    tickerPeriod,   \* period (ms) of the ticker of the last spawned goroutine, 0: none yet
    taskPc,         \* per sampling goroutine: "unborn" | "select" | "send" | "done"
    taskMetric,     \* per sampling goroutine: the Metric it is sending (pc "send")
    metricsChan,    \* UI.metricsChan: the buffered Metrics, oldest first
    chanClosed,     \* whether metricsChan has been closed
    consumerPc,     \* UI.update: "unborn" | "recv" | "render" | "exitClosed" | "exitCancelled"
    ctxDone,        \* UI.ctx is cancelled
    showGoRuntime,  \* UI.showGoRuntime
    uiPc,           \* UI.Start: "new" | "running" (inside app.Run) | "returned";
                    \* "appRun": app.Run() called on ui.App() without UI.Start
    callerPc,       \* the API caller: "idle" | "Stop" | "UIStop" | "UIStopClose" | "Render"
                    \* | "Toggle" | "Sleep"
    panic,          \* "none", or the panic that ended the process
    clock,          \* ticks taken so far; time.Now() of a Collect
    failures,       \* history: Collect calls that returned an error
    published,      \* history: every Metric sent on metricsChan, in order
    delivered,      \* history: every Metric passed to renderMetrics, in order
    startedTwice,   \* history: Start has been called on a running collector
    stopsDone,      \* history: a Stop call has handed the stop signal to a goroutine
    uiStopped,      \* history: a call of UI.Stop has returned
    now,            \* the wall clock (ms since NewSystemCollector), read by time.Now()
    prevNetStats,   \* SystemCollector.prevNetStats: interface name -> last counters
    prevTime,       \* SystemCollector.prevTime (ms)
    seenAt,         \* history: interface name -> time (ms) of its previous reading
    lastNet,        \* history: the last call of collectNetworkMetrics
    cpuView,        \* UI.cpuView: the text it shows
    memoryView,     \* UI.memoryView: the text it shows
    diskView,       \* UI.diskView: the text it shows
    networkView,    \* UI.networkView: the text it shows
    lastMemoryUpdate,     \* UI.lastMemoryUpdate (ms)
    lastNetworkUpdate,    \* UI.lastNetworkUpdate (ms)
    lastInterfaceUpdate,  \* UI.lastInterfaceUpdate (ms)
    topInterfaces,  \* UI.topInterfaces
    callerMetric,   \* the Metric of the API caller's pending RenderMetrics call
    lastDraw,       \* history: the runs of the closure of renderMetrics so far (n)
                    \* and the panels the last run found due
    startInterval,  \* history: the interval argument of the Start call that spawned
                    \* the last goroutine
    nextTick,       \* the time (ms) the ticker of the last spawned goroutine fires next
    wakeAt,         \* the time (ms) the API caller's time.Sleep returns
    gateRead,       \* the value of ui.showGoRuntime the API caller's ToggleGoRuntime read
    peer,           \* a second SystemCollector of the API caller, with its own channel
                    \* and goroutine: [running, stopChan, pc, metric, chan, published,
                    \* prevNetStats, prevTime, nextTick]
    cli             \* the command line of the process: [pc, command, args, cfg,
                    \* changed, file]; cfg is the global cfg of main

vars == <<running, stopChan, tickerPeriod, taskPc, taskMetric, metricsChan,
          chanClosed, consumerPc, ctxDone, showGoRuntime, uiPc, callerPc, panic,
          clock, failures, published, delivered, startedTwice,
          stopsDone, uiStopped, now, prevNetStats, prevTime, seenAt, lastNet,
          cpuView, memoryView, diskView, networkView, lastMemoryUpdate,
          lastNetworkUpdate, lastInterfaceUpdate, topInterfaces, callerMetric,
          lastDraw, startInterval, nextTick, wakeAt, gateRead, peer, cli>>

collectorVars == <<running, stopChan, tickerPeriod>>
taskVars == <<taskPc, taskMetric>>
chanVars == <<metricsChan, chanClosed>>
uiVars == <<consumerPc, ctxDone, showGoRuntime, uiPc>>
histVars == <<clock, failures, published, delivered, startedTwice,
              stopsDone, uiStopped>>
netVars == <<now, prevNetStats, prevTime, seenAt, lastNet>>
panelVars == <<cpuView, memoryView, diskView, networkView, lastMemoryUpdate,
               lastNetworkUpdate, lastInterfaceUpdate, topInterfaces>>
renderVars == <<panelVars, callerMetric, lastDraw>>
timerVars == <<startInterval, nextTick>>
clientVars == <<wakeAt, gateRead, peer, cli>>

(* ------------------------- the metrics provider ----------------------- *)

\* the zero value of a slice field of Metric
NilSlice == <<>>

(* What disk.Partitions(false) returns: an error, or the partitions, each
   with what disk.Usage returns for its mount point (usageErr: an error) *)
PartitionReads ==
    {[err |-> TRUE, partitions |-> <<>>],
     [err |-> FALSE, partitions |->
        <<[Mountpoint |-> "/", usageErr |-> FALSE, UsedPercent |-> 50]>>],
     [err |-> FALSE, partitions |->
        <<[Mountpoint |-> "/proc", usageErr |-> TRUE, UsedPercent |-> 0],
          [Mountpoint |-> "/", usageErr |-> FALSE, UsedPercent |-> 50]>>]}

(* collectDiskMetrics: fails when disk.Partitions fails; a partition whose
   disk.Usage fails is skipped. [err, stats], stats meaningful only when err
   is FALSE *)
collectDiskMetrics(read) ==
    IF read.err
    THEN [err |-> TRUE, stats |-> NilSlice]
    ELSE LET usable == SelectSeq(read.partitions, LAMBDA p : ~p.usageErr)
         IN  [err |-> FALSE,
              stats |-> [k \in 1..Len(usable) |->
                            [Path |-> usable[k].Mountpoint,
                             UsedPercentage |-> usable[k].UsedPercent]]]

(* net.IOCountersStat of one interface *)
Counter(name, recv, sent) ==
    [Name |-> name, BytesRecv |-> recv, BytesSent |-> sent,
     PacketsRecv |-> sent, PacketsSent |-> recv]

\* the cumulative counter values the provider reports
CounterValues == {3, 10}

(* What net.IOCounters(true) returns to a direct call of Collect: an error,
   or the counters of the interfaces present, in the provider's order. eth0
   comes and goes and its counters rise, stay or fall back (a reset) *)
CounterReads ==
    {[err |-> TRUE, counters |-> <<>>]}
    \cup {[err |-> FALSE, counters |-> <<Counter("lo", 3, 3)>>]}
    \cup {[err |-> FALSE, counters |-> <<Counter("eth0", r, t)>>] :
              r \in CounterValues, t \in CounterValues}
    \cup {[err |-> FALSE, counters |-> <<Counter("eth0", r, t), Counter("lo", 3, 3)>>] :
              r \in CounterValues, t \in CounterValues}

(* What net.IOCounters(true) returns on a tick of the sampling goroutine: an
   error, or one interface with steady counters *)
TickCounterReads ==
    {[err |-> TRUE, counters |-> <<>>],
     [err |-> FALSE, counters |-> <<Counter("eth0", 3, 3)>>]}

\* the times (ms) that pass between two direct calls of Collect
ElapsedMs == {0, 500, 2000}

(* uint64(f) of a float64 f >= 0 (q is f truncated): the truncated value
   when the word can hold it; otherwise Go leaves the result to the
   implementation: amd64 builds give the word's top bit, arm64 builds the
   largest value *)
Uint64OfFloat(q, arch) ==
    IF q < Word THEN q
    ELSE IF arch = "amd64" THEN Word \div 2 ELSE Word - 1

Archs == {"amd64", "arm64"}

(* uint64(float64(curr-prev) / timeDiff): the subtraction is unsigned
   (modulo the word), timeDiff is timeDiffMs / 1000 seconds *)
Rate(curr, prev, timeDiffMs, arch) ==
    Uint64OfFloat((((curr - prev) % Word) * 1000) \div timeDiffMs, arch)

\* the empty map
EmptyMap == [n \in {} |-> 0]

\* m[name] = v
MapPut(m, name, v) ==
    [n \in (DOMAIN m) \cup {name} |-> IF n = name THEN v ELSE m[n]]

(* the NetworkStat collectNetworkMetrics appends for one counter: the raw
   counters, replaced by rates when the map has a previous reading of the
   interface and time has passed since prevTime *)
NetStatOf(counter, prev, timeDiffMs, arch) ==
    IF counter.Name \in DOMAIN prev /\ timeDiffMs > 0
    THEN [Interface |-> counter.Name,
          RxBytes |-> Rate(counter.BytesRecv, prev[counter.Name].BytesRecv, timeDiffMs, arch),
          TxBytes |-> Rate(counter.BytesSent, prev[counter.Name].BytesSent, timeDiffMs, arch),
          RxPackets |-> Rate(counter.PacketsRecv, prev[counter.Name].PacketsRecv, timeDiffMs, arch),
          TxPackets |-> Rate(counter.PacketsSent, prev[counter.Name].PacketsSent, timeDiffMs, arch)]
    ELSE [Interface |-> counter.Name,
          RxBytes |-> counter.BytesRecv, TxBytes |-> counter.BytesSent,
          RxPackets |-> counter.PacketsRecv, TxPackets |-> counter.PacketsSent]

(* the loop of collectNetworkMetrics over counters[k..]: each counter is
   rated against the map as the loop has left it, then stored in the map *)
RECURSIVE NetLoop(_, _, _, _, _, _)
NetLoop(counters, k, prev, stats, timeDiffMs, arch) ==
    IF k > Len(counters)
    THEN [stats |-> stats, prevNetStats |-> prev]
    ELSE NetLoop(counters, k + 1,
                 MapPut(prev, counters[k].Name, counters[k]),
                 Append(stats, NetStatOf(counters[k], prev, timeDiffMs, arch)),
                 timeDiffMs, arch)

(* A faulty collectNetworkMetrics: prevTime is stamped before the read is
   looked at, also when it failed *)
collectNetworkMetricsStampsFailure(read, prev, prevT, t, arch) ==
    IF read.err
    THEN [err |-> TRUE, stats |-> NilSlice, prevNetStats |-> prev, prevTime |-> t]
    ELSE LET r == NetLoop(read.counters, 1, prev, NilSlice, t - prevT, arch)
         IN  [err |-> FALSE, stats |-> r.stats, prevNetStats |-> r.prevNetStats,
              prevTime |-> t]

(* SystemCollector.collectNetworkMetrics at time t with the reading read:
   [err, stats, prevNetStats, prevTime]; a failed read leaves the map and
   prevTime alone *)
collectNetworkMetrics(read, prev, prevT, t, arch) ==
    IF read.err
    THEN [err |-> TRUE, stats |-> NilSlice, prevNetStats |-> prev, prevTime |-> prevT]
    ELSE LET r == NetLoop(read.counters, 1, prev, NilSlice, t - prevT, arch)
         IN  [err |-> FALSE, stats |-> r.stats, prevNetStats |-> r.prevNetStats,
              prevTime |-> t]

\* metric := &Metric{Timestamp: time.Now()}
NewMetric(t) ==
    [Timestamp |-> t, CPU |-> NilSlice, Memory |-> 0, Disk |-> NilSlice,
     Network |-> NilSlice, GoRuntime |-> 0]

(* A faulty collectCPUMetrics: an overall figure is put before the figures
   of the cores (the layout the CPU panel reads) *)
collectCPUMetricsWithOverall == [i \in 1..(NumCPU + 1) |-> i - 1]

\* cpuPercent[i] = float64(i) for i < runtime.NumCPU(); never an error
collectCPUMetrics == [i \in 1..NumCPU |-> i - 1]

\* UsedPercentage of runtime.MemStats; never an error
collectMemoryMetrics == 50

\* NumGoroutine of the runtime; never an error
collectGoRuntimeMetrics == 1

(* A faulty Collect: a failed network read is swallowed and
   the Metric is returned without its Network field *)
CollectSwallowsNetError(t, diskRead, netRead) ==
    LET m2 == [NewMetric(t) EXCEPT !.CPU = collectCPUMetrics,
                                   !.Memory = collectMemoryMetrics]
    IN  IF diskRead.err
        THEN [err |-> TRUE, metric |-> NewMetric(t)]
        ELSE [err |-> FALSE,
              metric |-> [m2 EXCEPT !.Disk = diskRead.stats,
                                    !.Network = IF netRead.err THEN NilSlice ELSE netRead.stats,
                                    !.GoRuntime = collectGoRuntimeMetrics]]

(* SystemCollector.Collect: the categories are read in order; the first
   failing read returns (nil, err). [err, metric]: metric is meaningful only
   when err is FALSE *)
Collect(t, diskRead, netRead) ==
    LET m0 == NewMetric(t)
        m1 == [m0 EXCEPT !.CPU = collectCPUMetrics]
        m2 == [m1 EXCEPT !.Memory = collectMemoryMetrics]
    IN  IF diskRead.err
        THEN [err |-> TRUE, metric |-> m0]
        ELSE LET m3 == [m2 EXCEPT !.Disk = diskRead.stats]
             IN  IF netRead.err
                 THEN [err |-> TRUE, metric |-> m0]
                 ELSE [err |-> FALSE,
                       metric |-> [m3 EXCEPT !.Network = netRead.stats,
                                             !.GoRuntime = collectGoRuntimeMetrics]]

(* The network part of Collect, called at time t once the disk read has
   succeeded: the reading goes through collectNetworkMetrics, which leaves
   its new map and prevTime in the collector *)
CollectNetwork(read, t, arch) ==
    LET r == collectNetworkMetrics(read, prevNetStats, prevTime, t, arch)
        names == {read.counters[k].Name : k \in 1..Len(read.counters)}
    IN  /\ prevNetStats' = r.prevNetStats
        /\ prevTime' = r.prevTime
        /\ IF read.err
           THEN UNCHANGED <<seenAt, lastNet>>
           ELSE /\ seenAt' = [n \in (DOMAIN seenAt) \cup names |->
                                 IF n \in names THEN t ELSE seenAt[n]]
                /\ lastNet' = [called |-> TRUE, counters |-> read.counters,
                               prev |-> prevNetStats, seen |-> seenAt,
                               prevTime |-> prevTime, at |-> t, stats |-> r.stats]

\* lastNet before any call of collectNetworkMetrics
NoNetCall ==
    [called |-> FALSE, counters |-> <<>>, prev |-> EmptyMap, seen |-> EmptyMap,
     prevTime |-> 0, at |-> 0, stats |-> <<>>]

(* ------------------------------ rendering ----------------------------- *)

\* a text view after Clear()
NoText == <<>>

\* lastDraw before any run of the closure
NoDraw ==
    [n |-> 0, memory |-> FALSE, ranking |-> FALSE, network |-> FALSE]

(* A faulty CPU panel: the overall line is printed without looking at the
   length of the slice (0 stands for what an empty slice gives) *)
CpuTextUnguarded(m) ==
    <<[overall |-> IF Len(m.CPU) > 0 THEN m.CPU[1] ELSE 0,
       cores |-> IF Len(m.CPU) > 0 THEN Tail(m.CPU) ELSE <<>>]>>

\* the CPU panel: the overall figure and one bar per core
CpuText(m) ==
    IF Len(m.CPU) > 0
    THEN <<[overall |-> m.CPU[1], cores |-> Tail(m.CPU)]>>
    ELSE NoText

\* the memory panel: the usage, and the Go runtime figures when shown
MemoryText(m, showGo) ==
    <<[UsedPercentage |-> m.Memory,
       GoRuntime |-> IF showGo THEN <<m.GoRuntime>> ELSE <<>>]>>

\* the disk panel: one block per DiskStat
DiskText(m) == m.Disk

\* totalBytes := net.RxBytes + net.TxBytes (uint64)
TotalBytes(st) == (st.RxBytes + st.TxBytes) % Word

\* netStats: one interfaceStats per NetworkStat of the Metric, in its order
InterfaceStats(network) ==
    [k \in 1..Len(network) |->
        [name |-> network[k].Interface, totalBytes |-> TotalBytes(network[k])]]

\* the less function handed to sort.Slice
Less(a, b) == a.totalBytes > b.totalBytes

Swap(data, i, j) == [data EXCEPT ![i] = data[j], ![j] = data[i]]

\* insertionSort, inner loop: for j := i; j > a && less(j, j-1); j--
RECURSIVE InsertionInner(_, _)
InsertionInner(data, j) ==
    IF j > 1 /\ Less(data[j], data[j - 1])
    THEN InsertionInner(Swap(data, j, j - 1), j - 1)
    ELSE data

\* insertionSort from element i on
RECURSIVE InsertionSort(_, _)
InsertionSort(data, i) ==
    IF i > Len(data) THEN data
    ELSE InsertionSort(InsertionInner(data, i), i + 1)

\* the ShellSort pass of Go 1.18: for i := a + 6; i < b; i++
RECURSIVE ShellPass(_, _)
ShellPass(data, i) ==
    IF i > Len(data) THEN data
    ELSE ShellPass(IF Less(data[i], data[i - ShellGap])
                   THEN Swap(data, i, i - ShellGap) ELSE data, i + 1)

(* the Go toolchains the program builds with (Go >= 1.18): sort.Slice is a
   quicksort up to Go 1.18 and a pattern-defeating quicksort from Go 1.19 *)
GoVersions == {"go1.18", "go1.19"}

(* sort.Slice(netStats, less) on at most 12 elements: Go 1.19 sorts them by
   insertion; Go 1.18 first makes a ShellSort pass *)
SortSlice(data, go) ==
    IF Len(data) <= 1 THEN data
    ELSE IF go = "go1.18" THEN InsertionSort(ShellPass(data, ShellGap + 1), 2)
    ELSE InsertionSort(data, 2)

\* the names of the first three of the sorted netStats
TopInterfaces(network, go) ==
    LET sorted == SortSlice(InterfaceStats(network), go)
    IN  [k \in 1..(IF Len(sorted) < TopN THEN Len(sorted) ELSE TopN) |-> sorted[k].name]

\* netMap[iface]: the last NetworkStat of the Metric with that name
NetMapHas(network, iface) == \E k \in 1..Len(network) : network[k].Interface = iface
NetMapGet(network, iface) ==
    network[CHOOSE k \in 1..Len(network) :
                /\ network[k].Interface = iface
                /\ \A j \in (k + 1)..Len(network) : network[j].Interface # iface]

(* A faulty network panel: a top name the Metric lacks is dropped from the
   header too *)
NetworkTextDropsMissing(m, top) ==
    LET present == SelectSeq(top, LAMBDA iface : NetMapHas(m.Network, iface))
    IN  IF Len(top) > 0
        THEN <<[header |-> present,
                columns |-> [k \in 1..Len(present) |->
                    LET st == NetMapGet(m.Network, present[k])
                    IN  [RxBytes |-> st.RxBytes, RxPackets |-> st.RxPackets,
                         TxBytes |-> st.TxBytes, TxPackets |-> st.TxPackets,
                         Total |-> TotalBytes(st)]]]>>
        ELSE NoText

(* the network panel: nothing without top interfaces; otherwise the header
   with every top name and a column of figures for each top name the
   Metric has *)
NetworkText(m, top) ==
    IF Len(top) > 0
    THEN LET present == SelectSeq(top, LAMBDA iface : NetMapHas(m.Network, iface))
         IN  <<[header |-> top,
                columns |-> [k \in 1..Len(present) |->
                    LET st == NetMapGet(m.Network, present[k])
                    IN  [RxBytes |-> st.RxBytes, RxPackets |-> st.RxPackets,
                         TxBytes |-> st.TxBytes, TxPackets |-> st.TxPackets,
                         Total |-> TotalBytes(st)]]]>>
    ELSE NoText

(* A faulty closure: the memory panel is redrawn on every run *)
RenderClosureMemoryUnthrottled(m, go) ==
    LET rankingDue == now - lastInterfaceUpdate >= RankingCadence
        networkDue == now - lastNetworkUpdate >= NetworkCadence
        top == IF rankingDue THEN TopInterfaces(m.Network, go) ELSE topInterfaces
    IN  /\ cpuView' = CpuText(m)
        /\ memoryView' = MemoryText(m, showGoRuntime)
        /\ lastMemoryUpdate' = now
        /\ diskView' = DiskText(m)
        /\ topInterfaces' = top
        /\ lastInterfaceUpdate' = IF rankingDue THEN now ELSE lastInterfaceUpdate
        /\ networkView' = IF networkDue THEN NetworkText(m, top) ELSE networkView
        /\ lastNetworkUpdate' = IF networkDue THEN now ELSE lastNetworkUpdate
        /\ lastDraw' = [n |-> lastDraw.n + 1,
                        memory |-> TRUE, ranking |-> rankingDue,
                        network |-> networkDue]

(* A faulty closure: the network panel is redrawn on every run *)
RenderClosureNetworkUnthrottled(m, go) ==
    LET memoryDue == now - lastMemoryUpdate >= MemoryCadence
        rankingDue == now - lastInterfaceUpdate >= RankingCadence
        top == IF rankingDue THEN TopInterfaces(m.Network, go) ELSE topInterfaces
    IN  /\ cpuView' = CpuText(m)
        /\ memoryView' = IF memoryDue THEN MemoryText(m, showGoRuntime) ELSE memoryView
        /\ lastMemoryUpdate' = IF memoryDue THEN now ELSE lastMemoryUpdate
        /\ diskView' = DiskText(m)
        /\ topInterfaces' = top
        /\ lastInterfaceUpdate' = IF rankingDue THEN now ELSE lastInterfaceUpdate
        /\ networkView' = NetworkText(m, top)
        /\ lastNetworkUpdate' = now
        /\ lastDraw' = [n |-> lastDraw.n + 1,
                        memory |-> memoryDue, ranking |-> rankingDue,
                        network |-> TRUE]

(* A faulty closure: the ranking is recomputed whenever the network panel
   is redrawn *)
RenderClosureRankingWithNetwork(m, go) ==
    LET memoryDue == now - lastMemoryUpdate >= MemoryCadence
        networkDue == now - lastNetworkUpdate >= NetworkCadence
        rankingDue == networkDue
        top == IF rankingDue THEN TopInterfaces(m.Network, go) ELSE topInterfaces
    IN  /\ cpuView' = CpuText(m)
        /\ memoryView' = IF memoryDue THEN MemoryText(m, showGoRuntime) ELSE memoryView
        /\ lastMemoryUpdate' = IF memoryDue THEN now ELSE lastMemoryUpdate
        /\ diskView' = DiskText(m)
        /\ topInterfaces' = top
        /\ lastInterfaceUpdate' = IF rankingDue THEN now ELSE lastInterfaceUpdate
        /\ networkView' = IF networkDue THEN NetworkText(m, top) ELSE networkView
        /\ lastNetworkUpdate' = IF networkDue THEN now ELSE lastNetworkUpdate
        /\ lastDraw' = [n |-> lastDraw.n + 1,
                        memory |-> memoryDue, ranking |-> rankingDue,
                        network |-> networkDue]

(* A faulty closure: the disk panel is redrawn only with the memory panel *)
RenderClosureDiskThrottled(m, go) ==
    LET memoryDue == now - lastMemoryUpdate >= MemoryCadence
        rankingDue == now - lastInterfaceUpdate >= RankingCadence
        networkDue == now - lastNetworkUpdate >= NetworkCadence
        top == IF rankingDue THEN TopInterfaces(m.Network, go) ELSE topInterfaces
    IN  /\ cpuView' = CpuText(m)
        /\ memoryView' = IF memoryDue THEN MemoryText(m, showGoRuntime) ELSE memoryView
        /\ lastMemoryUpdate' = IF memoryDue THEN now ELSE lastMemoryUpdate
        /\ diskView' = IF memoryDue THEN DiskText(m) ELSE diskView
        /\ topInterfaces' = top
        /\ lastInterfaceUpdate' = IF rankingDue THEN now ELSE lastInterfaceUpdate
        /\ networkView' = IF networkDue THEN NetworkText(m, top) ELSE networkView
        /\ lastNetworkUpdate' = IF networkDue THEN now ELSE lastNetworkUpdate
        /\ lastDraw' = [n |-> lastDraw.n + 1,
                        memory |-> memoryDue, ranking |-> rankingDue,
                        network |-> networkDue]

(* A faulty closure: the network panel is drawn before the ranking is
   recomputed, from the top names of the ranking before *)
RenderClosureTableBeforeRanking(m, go) ==
    LET memoryDue == now - lastMemoryUpdate >= MemoryCadence
        rankingDue == now - lastInterfaceUpdate >= RankingCadence
        networkDue == now - lastNetworkUpdate >= NetworkCadence
        top == IF rankingDue THEN TopInterfaces(m.Network, go) ELSE topInterfaces
    IN  /\ cpuView' = CpuText(m)
        /\ memoryView' = IF memoryDue THEN MemoryText(m, showGoRuntime) ELSE memoryView
        /\ lastMemoryUpdate' = IF memoryDue THEN now ELSE lastMemoryUpdate
        /\ diskView' = DiskText(m)
        /\ networkView' = IF networkDue THEN NetworkText(m, topInterfaces) ELSE networkView
        /\ lastNetworkUpdate' = IF networkDue THEN now ELSE lastNetworkUpdate
        /\ topInterfaces' = top
        /\ lastInterfaceUpdate' = IF rankingDue THEN now ELSE lastInterfaceUpdate
        /\ lastDraw' = [n |-> lastDraw.n + 1,
                        memory |-> memoryDue, ranking |-> rankingDue,
                        network |-> networkDue]

(* The closure renderMetrics hands to QueueUpdateDraw, run by the event loop
   at time now on the Metric m: the CPU and disk panels always; the memory
   panel, the ranking and the network panel when their cadence has passed *)
RenderClosure(m, go) ==
    LET memoryDue == now - lastMemoryUpdate >= MemoryCadence
        rankingDue == now - lastInterfaceUpdate >= RankingCadence
        networkDue == now - lastNetworkUpdate >= NetworkCadence
        top == IF rankingDue THEN TopInterfaces(m.Network, go) ELSE topInterfaces
    IN  /\ cpuView' = CpuText(m)
        /\ memoryView' = IF memoryDue THEN MemoryText(m, showGoRuntime) ELSE memoryView
        /\ lastMemoryUpdate' = IF memoryDue THEN now ELSE lastMemoryUpdate
        /\ diskView' = DiskText(m)
        /\ topInterfaces' = top
        /\ lastInterfaceUpdate' = IF rankingDue THEN now ELSE lastInterfaceUpdate
        /\ networkView' = IF networkDue THEN NetworkText(m, top) ELSE networkView
        /\ lastNetworkUpdate' = IF networkDue THEN now ELSE lastNetworkUpdate
        /\ lastDraw' = [n |-> lastDraw.n + 1,
                        memory |-> memoryDue, ranking |-> rankingDue,
                        network |-> networkDue]

(* ------------------------- the configuration -------------------------- *)

\* the settings of a Config
Settings == {"RefreshInterval", "WebPort", "EnableGoRuntime"}

\* the flag that sets each setting
FlagOf ==
    [RefreshInterval |-> "interval", WebPort |-> "port", EnableGoRuntime |-> "go-runtime"]

\* config.DefaultConfig()
DefaultConfig == [RefreshInterval |-> 1, WebPort |-> 8080, EnableGoRuntime |-> FALSE]

\* the defaults of the flags bound to the global cfg in init()
FlagDefaults == [RefreshInterval |-> 1, WebPort |-> 8080, EnableGoRuntime |-> FALSE]

\* a setting that is not given; a setting given as v is <<v>>
NotSet == <<>>

(* the values given on the command line for the three flags, NotSet for a
   flag that is not given *)
ArgSets ==
    [RefreshInterval : {NotSet, <<1>>, <<3>>}, WebPort : {NotSet, <<8080>>, <<9090>>},
     EnableGoRuntime : {NotSet, <<TRUE>>, <<FALSE>>}]

(* what LoadConfig finds: no config file at all, a file that cannot be read
   or parsed, or a file that sets some of the three keys *)
ConfigFiles ==
    {[found |-> FALSE, bad |-> FALSE, keys |-> [s \in Settings |-> NotSet]],
     [found |-> TRUE, bad |-> TRUE, keys |-> [s \in Settings |-> NotSet]]}
    \cup {[found |-> TRUE, bad |-> FALSE, keys |-> k] :
              k \in [RefreshInterval : {NotSet, <<1>>, <<5>>},
                     WebPort : {NotSet, <<8080>>, <<7070>>},
                     EnableGoRuntime : {NotSet, <<TRUE>>, <<FALSE>>}]}

(* cobra's parse of the command line into the global cfg: a flag that is
   given sets its field and is marked changed, the others keep the flag
   default. --port is a flag of the server command only *)
ParseFlags(command, args) ==
    IF command # "server" /\ args.WebPort # NotSet
    THEN [err |-> TRUE, cfg |-> FlagDefaults, changed |-> {}]
    ELSE [err |-> FALSE,
          cfg |-> [s \in Settings |->
                     IF args[s] # NotSet THEN args[s][1] ELSE FlagDefaults[s]],
          changed |-> {FlagOf[s] : s \in {x \in Settings : args[x] # NotSet}}]

(* config.LoadConfig: the defaults, overwritten by the keys the file sets;
   an error when the file cannot be read or parsed *)
LoadConfig(file) ==
    IF file.found /\ file.bad
    THEN [err |-> TRUE, cfg |-> DefaultConfig]
    ELSE [err |-> FALSE,
          cfg |-> [s \in Settings |->
                     IF file.found /\ file.keys[s] # NotSet
                     THEN file.keys[s][1] ELSE DefaultConfig[s]]]

(* A faulty PersistentPreRunE: the fields of the global cfg overwrite the
   loaded ones whether or not their flags were given *)
PersistentPreRunEAlwaysOverrides(flagCfg, changed, file) ==
    LET loaded == LoadConfig(file)
    IN  IF loaded.err
        THEN [err |-> TRUE, cfg |-> flagCfg]
        ELSE [err |-> FALSE, cfg |-> flagCfg]

(* rootCmd.PersistentPreRunE: load the file, take the global cfg's field
   for every flag that was changed, and make the result the global cfg *)
PersistentPreRunE(flagCfg, changed, file) ==
    LET loaded == LoadConfig(file)
    IN  IF loaded.err
        THEN [err |-> TRUE, cfg |-> flagCfg]
        ELSE [err |-> FALSE,
              cfg |-> [s \in Settings |->
                         IF FlagOf[s] \in changed THEN flagCfg[s] ELSE loaded.cfg[s]]]

\* the process before cobra has parsed its command line
NewCli ==
    [pc |-> "start", command |-> "", args |-> [s \in Settings |-> NotSet],
     cfg |-> FlagDefaults, changed |-> {},
     file |-> [found |-> FALSE, bad |-> FALSE, keys |-> [s \in Settings |-> NotSet]]]

(* -------------------------------- Init -------------------------------- *)

\* NewSystemCollector for the second collector; its channel is empty
NewPeer ==
    [running |-> FALSE, stopChan |-> "open", pc |-> "unborn",
     metric |-> NewMetric(0), chan |-> <<>>, published |-> <<>>,
     prevNetStats |-> EmptyMap, prevTime |-> 0, nextTick |-> 0]

\* NewSystemCollector, then NewUI(collector, showGoRuntime)
InitProgram ==
    /\ running = FALSE
    /\ stopChan = "open"
    /\ tickerPeriod = 0
    /\ taskPc = [i \in Tasks |-> "unborn"]
    /\ taskMetric = [i \in Tasks |-> NewMetric(0)]
    /\ metricsChan = <<>>
    /\ chanClosed = FALSE
    /\ consumerPc = "unborn"
    /\ ctxDone = FALSE
    /\ showGoRuntime \in BOOLEAN
    /\ uiPc = "new"
    /\ callerPc = "idle"
    /\ panic = "none"
    /\ clock = 0
    /\ failures = 0
    /\ published = <<>>
    /\ delivered = <<>>
    /\ startedTwice = FALSE
    /\ stopsDone = FALSE
    /\ uiStopped = FALSE
    /\ now = 0
    /\ prevNetStats = EmptyMap
    /\ prevTime = 0
    /\ seenAt = EmptyMap
    /\ lastNet = NoNetCall
    /\ cpuView = NoText
    /\ memoryView = NoText
    /\ diskView = NoText
    /\ networkView = NoText
    /\ lastMemoryUpdate = 0 - MemoryCadence
    /\ lastNetworkUpdate = 0 - NetworkCadence
    /\ lastInterfaceUpdate = 0 - RankingCadence
    /\ topInterfaces = <<>>
    /\ lastDraw = NoDraw
    /\ startInterval = 0
    /\ nextTick = 0
    /\ wakeAt = 0
    /\ gateRead = FALSE
    /\ peer = NewPeer
    /\ cli = NewCli

\* the program as constructed; the API caller has no Metric in hand
Init ==
    /\ InitProgram
    /\ callerMetric = NewMetric(0)

Alive == {i \in Tasks : taskPc[i] \in {"select", "send"}}
Spawned == {i \in Tasks : taskPc[i] # "unborn"}
NextTask == CHOOSE i \in Tasks : taskPc[i] = "unborn" /\ \A j \in Tasks : taskPc[j] = "unborn" => i <= j

(* ----------------------- SystemCollector.Start ------------------------ *)

(* A faulty Start: the `if c.running { return }` guard is missing *)
StartNoGuard(interval) ==
    /\ Spawned # Tasks
    /\ running' = TRUE
    /\ tickerPeriod' = IF interval <= 0 THEN MinInterval ELSE interval
    /\ nextTick' = now + tickerPeriod'
    /\ startInterval' = interval
    /\ taskPc' = [taskPc EXCEPT ![NextTask] = "select"]
    /\ startedTwice' = (startedTwice \/ running)
    /\ UNCHANGED <<stopChan, taskMetric>>

(* A faulty Start: the interval is handed to the ticker as given, with no
   clamp of a non-positive one *)
StartNoClamp(interval) ==
    /\ startedTwice' = (startedTwice \/ running)
    /\ IF running
       THEN UNCHANGED <<running, tickerPeriod, taskPc, timerVars>>
       ELSE /\ Spawned # Tasks
            /\ running' = TRUE
            /\ tickerPeriod' = interval
            /\ nextTick' = now + tickerPeriod'
            /\ startInterval' = interval
            /\ taskPc' = [taskPc EXCEPT ![NextTask] = "select"]
    /\ UNCHANGED <<stopChan, taskMetric>>

(* SystemCollector.Start(interval, metricsChan): a no-op while running;
   otherwise clamps the interval, sets running and spawns the goroutine *)
Start(interval) ==
    /\ startedTwice' = (startedTwice \/ running)
    /\ IF running
       THEN UNCHANGED <<running, tickerPeriod, taskPc, timerVars>>
       ELSE /\ Spawned # Tasks
            /\ running' = TRUE
            /\ tickerPeriod' = IF interval <= 0 THEN MinInterval ELSE interval
            /\ nextTick' = now + tickerPeriod'
            /\ startInterval' = interval
            /\ taskPc' = [taskPc EXCEPT ![NextTask] = "select"]
    /\ UNCHANGED <<stopChan, taskMetric>>

\* a direct call of collector.Start by the API caller
CallStart ==
    /\ panic = "none"
    /\ callerPc = "idle"
    /\ \E interval \in Intervals : Start(interval)
    /\ UNCHANGED <<chanVars, uiVars, callerPc, panic, clock, failures, published,
                   delivered, stopsDone, uiStopped>>
    /\ UNCHANGED netVars
    /\ UNCHANGED renderVars
    /\ UNCHANGED clientVars

(* ------------------------ SystemCollector.Stop ------------------------ *)

(* A faulty Stop: it clears running and returns without handing the stop
   signal to the goroutine *)
StopEnterNoWait(blockedPc, returnPc) ==
    /\ callerPc' = returnPc
    /\ running' = FALSE
    /\ UNCHANGED <<stopChan, panic>>

(* Stop up to its send on stopChan: returns at once when not running,
   panics when stopChan is closed, otherwise blocks in the send (blockedPc)
   until a goroutine receives *)
StopEnter(blockedPc, returnPc) ==
    IF ~running
    THEN /\ callerPc' = returnPc
              /\ UNCHANGED <<running, stopChan, panic>>
    ELSE IF stopChan = "closed"
    THEN /\ panic' = "Stop: send on closed channel"
         /\ UNCHANGED <<running, stopChan, callerPc>>
    ELSE /\ callerPc' = blockedPc
         /\ UNCHANGED <<running, stopChan, panic>>

\* a direct call of collector.Stop by the API caller
CallStop ==
    /\ panic = "none"
    /\ callerPc = "idle"
    /\ StopEnter("Stop", "idle")
    /\ UNCHANGED <<tickerPeriod, taskVars, chanVars, uiVars, clock, failures,
                   published, delivered, startedTwice, stopsDone, uiStopped>>
    /\ UNCHANGED netVars
    /\ UNCHANGED renderVars
    /\ UNCHANGED <<timerVars, clientVars>>

(* ----------------------- the sampling goroutine ----------------------- *)

(* case <-ticker.C: Collect; on success the goroutine goes on to the send,
   on an error it returns to the select *)
TaskTick(i) ==
    /\ panic = "none"
    /\ taskPc[i] = "select"
    /\ clock < MaxTicks
    /\ now' = IF nextTick > now THEN nextTick ELSE now
    /\ nextTick' = nextTick + tickerPeriod
    /\ \E partitionRead \in PartitionReads, read \in TickCounterReads, arch \in Archs :
         LET diskRead == collectDiskMetrics(partitionRead)
             net == collectNetworkMetrics(read, prevNetStats, prevTime, now', arch)
             r == Collect(clock + 1, diskRead, [err |-> net.err, stats |-> net.stats])
         IN  /\ (r.err => failures < MaxFailures)
             /\ clock' = clock + 1
             /\ IF diskRead.err
                THEN UNCHANGED <<prevNetStats, prevTime, seenAt, lastNet>>
                ELSE CollectNetwork(read, now', arch)
             /\ IF ~r.err
                THEN /\ taskPc' = [taskPc EXCEPT ![i] = "send"]
                     /\ taskMetric' = [taskMetric EXCEPT ![i] = r.metric]
                     /\ UNCHANGED failures
                ELSE /\ failures' = failures + 1
                     /\ UNCHANGED taskVars
    /\ UNCHANGED <<collectorVars, chanVars, uiVars, callerPc, panic, published,
                   delivered, startedTwice, stopsDone, uiStopped>>
    /\ UNCHANGED renderVars
    /\ UNCHANGED <<startInterval, clientVars>>

\* a tick among the first MaxUITicks of the run
EarlyTick(i) == clock < MaxUITicks /\ TaskTick(i)

(* A faulty send: a full buffer drops its oldest Metric instead of
   blocking the goroutine *)
TaskPublishDropOldest(i) ==
    /\ panic = "none"
    /\ taskPc[i] = "send"
    /\ ~chanClosed
    /\ metricsChan' = IF Len(metricsChan) < ChanCap
                      THEN Append(metricsChan, taskMetric[i])
                      ELSE Append(Tail(metricsChan), taskMetric[i])
    /\ published' = Append(published, taskMetric[i])
    /\ taskPc' = [taskPc EXCEPT ![i] = "select"]
    /\ UNCHANGED <<collectorVars, taskMetric, chanClosed, uiVars, callerPc, panic,
                   clock, failures, delivered, startedTwice, stopsDone,
                   uiStopped>>
    /\ UNCHANGED netVars
    /\ UNCHANGED renderVars
    /\ UNCHANGED <<timerVars, clientVars>>

(* metricsChan <- *metric: blocks while the buffer is full, panics on a
   closed channel *)
TaskPublish(i) ==
    /\ panic = "none"
    /\ taskPc[i] = "send"
    /\ IF chanClosed
       THEN /\ panic' = "task: send on closed channel"
            /\ UNCHANGED <<metricsChan, published, taskPc>>
       ELSE /\ Len(metricsChan) < ChanCap
            /\ metricsChan' = Append(metricsChan, taskMetric[i])
            /\ published' = Append(published, taskMetric[i])
            /\ taskPc' = [taskPc EXCEPT ![i] = "select"]
            /\ UNCHANGED panic
    /\ UNCHANGED <<collectorVars, taskMetric, chanClosed, uiVars, callerPc,
                   clock, failures, delivered, startedTwice, stopsDone,
                   uiStopped>>
    /\ UNCHANGED netVars
    /\ UNCHANGED renderVars
    /\ UNCHANGED <<timerVars, clientVars>>

(* A faulty stop case: the goroutine discards the Metrics still in the
   buffer before it returns *)
TaskStopSignalDrains(i) ==
    /\ panic = "none"
    /\ taskPc[i] = "select"
    /\ callerPc \in {"Stop", "UIStop"}
    /\ stopChan = "open"
    /\ taskPc' = [taskPc EXCEPT ![i] = "done"]
    /\ running' = FALSE
    /\ stopChan' = "closed"
    /\ callerPc' = IF callerPc = "Stop" THEN "idle" ELSE "UIStopClose"
    /\ stopsDone' = TRUE
    /\ metricsChan' = <<>>
    /\ UNCHANGED <<tickerPeriod, taskMetric, chanClosed, uiVars, panic, clock,
                   failures, published, delivered, startedTwice, uiStopped>>
    /\ UNCHANGED netVars
    /\ UNCHANGED renderVars
    /\ UNCHANGED <<timerVars, clientVars>>

(* case <-c.stopChan, with a Stop call blocked in its send: the goroutine
   returns; the Stop call goes on: c.running = false; close(c.stopChan);
   and returns (to UI.Stop when called from there). Nothing reads running
   or stopChan between the hand-over and the close but a Start call, for
   which running is still true at the hand-over: one step *)
TaskStopSignal(i) ==
    /\ panic = "none"
    /\ taskPc[i] = "select"
    /\ callerPc \in {"Stop", "UIStop"}
    /\ stopChan = "open"
    /\ taskPc' = [taskPc EXCEPT ![i] = "done"]
    /\ running' = FALSE
    /\ stopChan' = "closed"
    /\ callerPc' = IF callerPc = "Stop" THEN "idle" ELSE "UIStopClose"
    /\ stopsDone' = TRUE
    /\ UNCHANGED <<tickerPeriod, taskMetric, chanVars, uiVars, panic, clock,
                   failures, published, delivered, startedTwice, uiStopped>>
    /\ UNCHANGED netVars
    /\ UNCHANGED renderVars
    /\ UNCHANGED <<timerVars, clientVars>>

(* case <-c.stopChan on the closed stopChan (a goroutine spawned after a
   Stop): the receive succeeds at once and the goroutine returns *)
TaskStopClosed(i) ==
    /\ panic = "none"
    /\ taskPc[i] = "select"
    /\ stopChan = "closed"
    /\ taskPc' = [taskPc EXCEPT ![i] = "done"]
    /\ UNCHANGED <<collectorVars, taskMetric, chanVars, uiVars, callerPc, panic,
                   histVars>>
    /\ UNCHANGED netVars
    /\ UNCHANGED renderVars
    /\ UNCHANGED <<timerVars, clientVars>>

(* ---------------------------------- UI -------------------------------- *)

(* A faulty UI.Start: the collector is started with the refreshInterval
   RunMonitor hands over, cfg.RefreshInterval seconds *)
UIStartWithRefreshInterval ==
    /\ panic = "none"
    /\ uiPc = "new"
    /\ Start(cli.cfg.RefreshInterval * 1000)
    /\ consumerPc' = "recv"
    /\ uiPc' = "running"
    /\ UNCHANGED <<chanVars, ctxDone, showGoRuntime, callerPc, panic, clock,
                   failures, published, delivered, stopsDone, uiStopped>>
    /\ UNCHANGED netVars
    /\ UNCHANGED renderVars
    /\ UNCHANGED clientVars

(* UI.Start(refreshInterval): collector.Start(100ms, metricsChan), whatever
   refreshInterval is; go ui.update(); app.Run() *)
UIStart ==
    /\ panic = "none"
    /\ uiPc = "new"
    /\ Start(UIInterval)
    /\ consumerPc' = "recv"
    /\ uiPc' = "running"
    /\ UNCHANGED <<chanVars, ctxDone, showGoRuntime, callerPc, panic, clock,
                   failures, published, delivered, stopsDone, uiStopped>>
    /\ UNCHANGED netVars
    /\ UNCHANGED renderVars
    /\ UNCHANGED clientVars

(* the key handler, 'q': ui.cancel(); ui.app.Stop(), after which app.Run
   and UI.Start return *)
KeyQ ==
    /\ panic = "none"
    /\ uiPc = "running"
    /\ ctxDone' = TRUE
    /\ uiPc' = "returned"
    /\ UNCHANGED <<collectorVars, taskVars, chanVars, consumerPc, showGoRuntime,
                   callerPc, panic, histVars>>
    /\ UNCHANGED netVars
    /\ UNCHANGED renderVars
    /\ UNCHANGED <<timerVars, clientVars>>

\* the key handler, 'g': ui.showGoRuntime = !ui.showGoRuntime
KeyG ==
    /\ panic = "none"
    /\ uiPc = "running"
    /\ showGoRuntime' = ~showGoRuntime
    /\ UNCHANGED <<collectorVars, taskVars, chanVars, consumerPc, ctxDone, uiPc,
                   callerPc, panic, histVars>>
    /\ UNCHANGED netVars
    /\ UNCHANGED renderVars
    /\ UNCHANGED <<timerVars, clientVars>>

\* UI.Stop, first part: ui.cancel(); ui.collector.Stop() up to its send
UIStopBegin ==
    /\ panic = "none"
    /\ callerPc = "idle"
    /\ ctxDone' = TRUE
    /\ StopEnter("UIStop", "UIStopClose")
    /\ UNCHANGED <<tickerPeriod, taskVars, chanVars, consumerPc, showGoRuntime,
                   uiPc, clock, failures, published, delivered, startedTwice,
                   stopsDone, uiStopped>>
    /\ UNCHANGED netVars
    /\ UNCHANGED renderVars
    /\ UNCHANGED <<timerVars, clientVars>>

(* A faulty UI.Stop: it returns without closing metricsChan *)
UIStopCloseSkipped ==
    /\ panic = "none"
    /\ callerPc = "UIStopClose"
    /\ callerPc' = "idle"
    /\ uiStopped' = TRUE
    /\ UNCHANGED <<collectorVars, taskVars, chanVars, uiVars, panic, clock,
                   failures, published, delivered, startedTwice, stopsDone>>
    /\ UNCHANGED netVars
    /\ UNCHANGED renderVars
    /\ UNCHANGED <<timerVars, clientVars>>

(* UI.Stop, last part: close(ui.metricsChan), which panics on a closed
   channel; then UI.Stop returns *)
UIStopClose ==
    /\ panic = "none"
    /\ callerPc = "UIStopClose"
    /\ IF chanClosed
       THEN /\ panic' = "UI.Stop: close of closed channel"
            /\ UNCHANGED <<chanClosed, callerPc, uiStopped>>
       ELSE /\ chanClosed' = TRUE
            /\ callerPc' = "idle"
            /\ uiStopped' = TRUE
            /\ UNCHANGED panic
    /\ UNCHANGED <<collectorVars, taskVars, metricsChan, uiVars, clock, failures,
                   published, delivered, startedTwice, stopsDone>>
    /\ UNCHANGED netVars
    /\ UNCHANGED renderVars
    /\ UNCHANGED <<timerVars, clientVars>>

(* A faulty UI.update: it renders the newest buffered Metric instead of the
   oldest *)
UpdateRecvNewest ==
    /\ panic = "none"
    /\ consumerPc = "recv"
    /\ Len(metricsChan) > 0
    /\ delivered' = Append(delivered, metricsChan[Len(metricsChan)])
    /\ metricsChan' = SubSeq(metricsChan, 1, Len(metricsChan) - 1)
    /\ consumerPc' = "render"
    /\ UNCHANGED <<collectorVars, taskVars, chanClosed, ctxDone, showGoRuntime,
                   uiPc, callerPc, panic,
                   clock, failures, published, startedTwice, stopsDone,
                   uiStopped>>
    /\ UNCHANGED netVars
    /\ UNCHANGED renderVars
    /\ UNCHANGED <<timerVars, clientVars>>

(* A faulty UI.update: the Metric received is dropped and the loop goes
   back to its select without calling renderMetrics *)
UpdateRecvNoRender ==
    /\ panic = "none"
    /\ consumerPc = "recv"
    /\ Len(metricsChan) > 0
    /\ delivered' = Append(delivered, Head(metricsChan))
    /\ metricsChan' = Tail(metricsChan)
    /\ consumerPc' = "recv"
    /\ UNCHANGED <<collectorVars, taskVars, chanClosed, ctxDone, showGoRuntime,
                   uiPc, callerPc, panic,
                   clock, failures, published, startedTwice, stopsDone,
                   uiStopped>>
    /\ UNCHANGED netVars
    /\ UNCHANGED renderVars
    /\ UNCHANGED <<timerVars, clientVars>>

(* UI.update, case metric, ok := <-ui.metricsChan with ok: the oldest
   buffered Metric is taken (also from a closed channel that still holds
   some) and passed to renderMetrics, which queues its closure with
   QueueUpdateDraw and waits there for the event loop to run it *)
UpdateRecv ==
    /\ panic = "none"
    /\ consumerPc = "recv"
    /\ Len(metricsChan) > 0
    /\ delivered' = Append(delivered, Head(metricsChan))
    /\ metricsChan' = Tail(metricsChan)
    /\ consumerPc' = "render"
    /\ UNCHANGED <<collectorVars, taskVars, chanClosed, ctxDone, showGoRuntime,
                   uiPc, callerPc, panic,
                   clock, failures, published, startedTwice, stopsDone,
                   uiStopped>>
    /\ UNCHANGED netVars
    /\ UNCHANGED renderVars
    /\ UNCHANGED <<timerVars, clientVars>>

\* UI.update, case <-ui.metricsChan with !ok (closed and empty): return
UpdateClosed ==
    /\ panic = "none"
    /\ consumerPc = "recv"
    /\ chanClosed
    /\ Len(metricsChan) = 0
    /\ consumerPc' = "exitClosed"
    /\ UNCHANGED <<collectorVars, taskVars, chanVars, ctxDone, showGoRuntime, uiPc,
                   callerPc, panic, histVars>>
    /\ UNCHANGED netVars
    /\ UNCHANGED renderVars
    /\ UNCHANGED <<timerVars, clientVars>>

\* UI.update, case <-ui.ctx.Done(): return
UpdateCancelled ==
    /\ panic = "none"
    /\ consumerPc = "recv"
    /\ ctxDone
    /\ consumerPc' = "exitCancelled"
    /\ UNCHANGED <<collectorVars, taskVars, chanVars, ctxDone, showGoRuntime, uiPc,
                   callerPc, panic, histVars>>
    /\ UNCHANGED netVars
    /\ UNCHANGED renderVars
    /\ UNCHANGED <<timerVars, clientVars>>

(* --------------------- the event loop and rendering ------------------- *)

\* the tview event loop (app.Run) is running and runs the queued closures
LoopRunning == uiPc \in {"running", "appRun"}

(* the event loop runs the closure UI.update queued for the Metric it
   received; QueueUpdateDraw then returns and update goes back to its
   select *)
DrawForConsumer ==
    /\ panic = "none"
    /\ LoopRunning
    /\ consumerPc = "render"
    /\ \E go \in GoVersions : RenderClosure(delivered[Len(delivered)], go)
    /\ consumerPc' = "recv"
    /\ UNCHANGED <<collectorVars, taskVars, chanVars, ctxDone, showGoRuntime, uiPc,
                   callerPc, panic, histVars, netVars, callerMetric>>
    /\ UNCHANGED <<timerVars, clientVars>>

\* a client runs the event loop itself: ui.App().Run(), without UI.Start
AppRun ==
    /\ panic = "none"
    /\ uiPc = "new"
    /\ uiPc' = "appRun"
    /\ UNCHANGED <<collectorVars, taskVars, chanVars, consumerPc, ctxDone,
                   showGoRuntime, callerPc, panic, histVars, netVars, renderVars>>
    /\ UNCHANGED <<timerVars, clientVars>>

(* A direct call of ui.ToggleGoRuntime() by the API caller, in the caller's
   goroutine with no synchronization: ui.showGoRuntime = !ui.showGoRuntime
   is a read of the field ... *)
CallToggleGoRuntime ==
    /\ panic = "none"
    /\ callerPc = "idle"
    /\ gateRead' = showGoRuntime
    /\ callerPc' = "Toggle"
    /\ UNCHANGED <<collectorVars, taskVars, chanVars, uiVars, panic, histVars,
                   netVars, renderVars, timerVars, wakeAt, peer, cli>>

(* ... and then a write of the negated value read; the event loop's key
   handler and closures may run in between *)
ToggleGoRuntimeWrite ==
    /\ panic = "none"
    /\ callerPc = "Toggle"
    /\ showGoRuntime' = ~gateRead
    /\ callerPc' = "idle"
    /\ UNCHANGED <<collectorVars, taskVars, chanVars, consumerPc, ctxDone, uiPc,
                   panic, histVars, netVars, renderVars, timerVars, clientVars>>

(* A faulty RenderMetrics: it runs the closure in the caller's goroutine
   instead of queueing it for the event loop *)
CallRenderMetricsUnqueued(m, d) ==
    /\ panic = "none"
    /\ callerPc = "idle"
    /\ lastDraw.n < MaxRenders
    /\ now' = now + d
    /\ callerMetric' = m
    /\ \E go \in GoVersions : RenderClosure(m, go)
    /\ UNCHANGED <<collectorVars, taskVars, chanVars, uiVars, callerPc, panic,
                   histVars, prevNetStats, prevTime, seenAt, lastNet>>
    /\ UNCHANGED <<timerVars, clientVars>>

(* A direct call of ui.RenderMetrics(m) by the API caller, d ms after the
   last step that took time: renderMetrics queues its closure with
   QueueUpdateDraw and waits there for the event loop to run it *)
CallRenderMetrics(m, d) ==
    /\ panic = "none"
    /\ callerPc = "idle"
    /\ lastDraw.n < MaxRenders
    /\ now' = now + d
    /\ callerMetric' = m
    /\ callerPc' = "Render"
    /\ UNCHANGED <<collectorVars, taskVars, chanVars, uiVars, panic, histVars,
                   prevNetStats, prevTime, seenAt, lastNet, panelVars, lastDraw>>
    /\ UNCHANGED <<timerVars, clientVars>>

(* the event loop runs the closure the API caller's RenderMetrics queued;
   RenderMetrics then returns *)
DrawForCaller ==
    /\ panic = "none"
    /\ LoopRunning
    /\ callerPc = "Render"
    /\ \E go \in GoVersions : RenderClosure(callerMetric, go)
    /\ callerPc' = "idle"
    /\ UNCHANGED <<collectorVars, taskVars, chanVars, uiVars, panic, histVars,
                   netVars, callerMetric>>
    /\ UNCHANGED <<timerVars, clientVars>>

\* a Metric a client hands to RenderMetrics
RenderInput(cpu, memory, disk, network) ==
    [NewMetric(0) EXCEPT !.CPU = cpu, !.Memory = memory, !.Disk = disk,
                         !.Network = network, !.GoRuntime = collectGoRuntimeMetrics]

NetStat(name, rx, tx) ==
    [Interface |-> name, RxBytes |-> rx, TxBytes |-> tx, RxPackets |-> rx,
     TxPackets |-> tx]

(* the Metrics handed to RenderMetrics: they differ in every panel; the
   second has no disk and more than three interfaces, the third has lost
   interfaces of the second *)
RenderInputs ==
    {RenderInput(<<10, 10>>, 10, <<[Path |-> "/", UsedPercentage |-> 10]>>,
                 <<NetStat("eth0", 5, 5), NetStat("lo", 1, 1)>>),
     RenderInput(<<20, 20>>, 20, NilSlice,
                 <<NetStat("lo", 9, 9), NetStat("eth0", 1, 1),
                   NetStat("wlan0", 2, 2), NetStat("tun0", 3, 3)>>),
     RenderInput(<<30, 30>>, 30, <<[Path |-> "/", UsedPercentage |-> 30]>>,
                 <<NetStat("lo", 4, 4)>>)}

\* the times (ms) that pass between two direct calls of RenderMetrics
RenderElapsedMs == {1000, 4000, 25000}

(* A client that runs the event loop and renders Metrics of its own through
   RenderMetrics, toggling the Go runtime figures *)
NextRender ==
    \/ AppRun
    \/ CallToggleGoRuntime
    \/ ToggleGoRuntimeWrite
    \/ \E m \in RenderInputs, d \in RenderElapsedMs : CallRenderMetrics(m, d)
    \/ DrawForCaller

SpecRender == Init /\ [][NextRender]_vars

(* The network sequences whose ranking is checked: seven interfaces with
   sums that tie, two interfaces with rates up to the word's top bit (the
   rate of a fallen counter on amd64), and no interface at all *)
RankNames == <<"if1", "if2", "if3", "if4", "if5", "if6", "if7">>

RankNetworks ==
    {[k \in 1..Len(RankNames) |-> NetStat(RankNames[k], rx[k], 1)] :
         rx \in [1..Len(RankNames) -> {1, 2}]}
    \cup {<<NetStat("if1", r1, t1), NetStat("if2", r2, t2)>> :
              r1 \in {1, Word \div 2}, t1 \in {1, Word \div 2},
              r2 \in {1, Word \div 2}, t2 \in {1, Word \div 2}}
    \cup {NilSlice}

\* the program as constructed; the API caller holds a Metric to rank
InitRank ==
    /\ InitProgram
    /\ callerMetric \in {RenderInput(<<10, 10>>, 10, NilSlice, network) :
                             network \in RankNetworks}

(* A client that runs the event loop and renders its Metric again and
   again, a ranking cadence apart, so that every run ranks *)
NextRank ==
    \/ AppRun
    \/ CallRenderMetrics(callerMetric, RankingCadence)
    \/ DrawForCaller

SpecRank == InitRank /\ [][NextRank]_vars

\* the Metric the client of the running monitor renders
ClientMetric ==
    RenderInput(<<20, 20>>, 20, NilSlice,
                <<NetStat("lo", 9, 9), NetStat("eth0", 1, 1)>>)

(* The terminal monitor while a client also renders a Metric of its own
   through RenderMetrics: two goroutines call renderMetrics *)
NextDispatch ==
    \/ UIStart
    \/ UpdateRecv
    \/ DrawForConsumer
    \/ \E i \in Tasks : EarlyTick(i)
    \/ \E i \in Tasks : TaskPublish(i)
    \/ CallRenderMetrics(ClientMetric, 0)
    \/ DrawForCaller

SpecDispatch == Init /\ [][NextDispatch]_vars

(* ------------------------------ the system ---------------------------- *)

(* The terminal monitor: UI.Start on the UI of RunMonitor, the keys, calls
   of UI.Stop and of the collector's Stop, the update goroutine, the event
   loop and the sampling goroutine, over the first MaxUITicks ticks. UI.Start
   is called once, so no goroutine is spawned after a Stop and none finds
   stopChan closed *)
Next ==
    \/ UIStart
    \/ KeyQ
    \/ KeyG
    \/ UIStopBegin
    \/ UIStopClose
    \/ CallStop
    \/ UpdateRecv
    \/ DrawForConsumer
    \/ UpdateClosed
    \/ UpdateCancelled
    \/ \E i \in Tasks : EarlyTick(i)
    \/ \E i \in Tasks : TaskPublish(i)
    \/ \E i \in Tasks : TaskStopSignal(i)

Spec == Init /\ [][Next]_vars

(* The terminal monitor left alone: UI.Start, the sampling goroutine, the
   update goroutine and the event loop, with no key pressed and no Stop *)
NextStream ==
    \/ UIStart
    \/ UpdateRecv
    \/ DrawForConsumer
    \/ \E i \in Tasks : TaskTick(i)
    \/ \E i \in Tasks : TaskPublish(i)

SpecStream == Init /\ [][NextStream]_vars

(* A client that drives a SystemCollector directly, handing Start a channel
   nobody receives from (the collector's tests read only its length) *)
NextCollector ==
    \/ CallStart
    \/ CallStop
    \/ \E i \in Tasks : TaskTick(i)
    \/ \E i \in Tasks : TaskPublish(i)
    \/ \E i \in Tasks : TaskStopSignal(i)
    \/ \E i \in Tasks : TaskStopClosed(i)

SpecCollector == Init /\ [][NextCollector]_vars

(* A direct call of collector.Collect by the API caller, some time after
   the previous one: the Metric goes to the caller; the collector keeps the
   network map and prevTime *)
CallCollect ==
    /\ panic = "none"
    /\ callerPc = "idle"
    /\ clock < MaxCollects
    /\ \E d \in ElapsedMs : now' = now + d
    /\ \E partitionRead \in PartitionReads, read \in CounterReads, arch \in Archs :
         LET diskRead == collectDiskMetrics(partitionRead)
             net == collectNetworkMetrics(read, prevNetStats, prevTime, now', arch)
             r == Collect(clock + 1, diskRead, [err |-> net.err, stats |-> net.stats])
         IN  /\ (r.err => failures < MaxFailures)
             /\ clock' = clock + 1
             /\ failures' = IF r.err THEN failures + 1 ELSE failures
             /\ IF diskRead.err
                THEN UNCHANGED <<prevNetStats, prevTime, seenAt, lastNet>>
                ELSE CollectNetwork(read, now', arch)
    /\ UNCHANGED <<collectorVars, taskVars, chanVars, uiVars, callerPc, panic,
                   published, delivered, startedTwice, stopsDone, uiStopped>>
    /\ UNCHANGED renderVars
    /\ UNCHANGED <<timerVars, clientVars>>

(* A client that only calls Collect on a SystemCollector it never starts *)
NextNet == CallCollect

SpecNet == Init /\ [][NextNet]_vars

(* ------------------------------ the claims ---------------------------- *)

IsPrefix(a, b) == Len(a) <= Len(b) /\ SubSeq(b, 1, Len(a)) = a

Timestamps(q) == [k \in 1..Len(q) |-> q[k].Timestamp]

StrictlyIncreasing(q) == \A k \in 1..(Len(q) - 1) : q[k] < q[k + 1]

\* a Metric with every category read: none of its slices is the zero value
Complete(m) ==
    /\ Len(m.CPU) = NumCPU
    /\ m.Disk # NilSlice
    /\ m.Network # NilSlice

\* a call of collector.Stop is blocked in its send on stopChan
StopBlocked == callerPc \in {"Stop", "UIStop"}

(* C1: a Stop call waiting for the sampling goroutine never hangs: while it
   waits and nobody receives from the buffer, the goroutine can always take
   a step, either publishing or taking the stop signal (a publish into a
   full buffer is abandoned). *)
C1_StopCompletesOnFullBuffer ==
    (StopBlocked /\ panic = "none" /\ consumerPc # "recv")
        => ENABLED (\E i \in Tasks : TaskPublish(i) \/ TaskStopSignal(i))

(* C2: Stop is safe any number of times, running or not: no call of Stop
   panics and no call of Stop is left blocked with no step that lets it
   return. *)
C2_StopAlwaysSafe ==
    /\ panic # "Stop: send on closed channel"
    /\ (callerPc = "Stop" /\ panic = "none")
           => ENABLED (\E i \in Tasks : TaskTick(i) \/ TaskPublish(i) \/ TaskStopSignal(i))

(* C3: Start on a running collector is a no-op: there is never more than
   one live sampling goroutine; on a collector no Stop has stopped yet, a
   running collector has spawned exactly one goroutine and it is alive,
   however often Start was called; and the published Snapshots carry
   strictly increasing tick times (no tick is published twice). *)
C3_StartIdempotent ==
    /\ Cardinality(Alive) <= 1
    /\ (running /\ ~stopsDone) => (Cardinality(Spawned) = 1 /\ Cardinality(Alive) = 1)
    /\ StrictlyIncreasing(Timestamps(published))

\* Start was called again on the running collector and the one goroutine publishes
C3_Witness ==
    /\ startedTwice
    /\ ~stopsDone
    /\ running
    /\ Cardinality(Alive) = 1
    /\ Len(published) >= 2

(* C4: once Stop has returned, and until Start is called again, nothing is
   published: no step taken while the collector is not running extends the
   sequence of published Snapshots. *)
C4_NoPublishAfterStop == [][~running => published' = published]_vars

\* Stop has returned after Snapshots were published, with ticks still to come
C4_Witness ==
    /\ stopsDone
    /\ ~running
    /\ callerPc = "idle"
    /\ Len(published) > 0
    /\ clock < MaxTicks

(* C5, as claimed: once the collector's Stop has stopped the Sampler and
   returned to its caller, the queue is closed. *)
C5_QueueClosedAfterSamplerStop == (stopsDone /\ callerPc = "idle") => chanClosed

(* C5, amended: once UI.Stop has returned the queue is closed, and a
   consumer waiting on the empty queue can observe end-of-stream instead of
   blocking. *)
C5_QueueClosedAfterUIStop ==
    uiStopped =>
        /\ chanClosed
        /\ (consumerPc = "recv" /\ metricsChan = <<>> /\ panic = "none")
               => ENABLED UpdateClosed

\* UI.Stop has returned and the consumer drained the queue to end-of-stream
C5_Witness ==
    /\ uiStopped
    /\ consumerPc = "exitClosed"
    /\ Len(delivered) > 0
    /\ delivered = published

(* C6: once quit has returned control to the caller of UI.Start, the
   context is cancelled, the Sampler is stopped (not running, no live
   sampling goroutine) and the queue is closed. *)
C6_QuitStopsSamplerAndClosesQueue ==
    uiPc = "returned" =>
        /\ ctxDone
        /\ ~running
        /\ Alive = {}
        /\ chanClosed

(* C7: stopping the UI any number of times never panics on closing the
   queue a second time. *)
C7_StopTwiceNoDoubleClose == panic # "UI.Stop: close of closed channel"

(* C8: the buffer never holds more than its capacity and nothing published
   is dropped or overwritten: the published Snapshots are exactly the
   delivered ones followed by the buffered ones, and a Snapshot the Sampler
   is still waiting to send is newer than everything published. *)
C8_BoundedBlockingBuffer ==
    /\ Len(metricsChan) <= ChanCap
    /\ published = delivered \o metricsChan
    /\ \A i \in Tasks : taskPc[i] = "send" =>
           \A k \in 1..Len(published) : published[k].Timestamp < taskMetric[i].Timestamp

\* the Sampler waits with a Snapshot in hand while the buffer is full
C8_Witness ==
    /\ Len(metricsChan) = ChanCap
    /\ \E i \in Tasks : taskPc[i] = "send"
    /\ Len(delivered) > 0

(* C9: the Snapshots passed to renderMetrics are a prefix of the published
   ones, in publish order, none twice. *)
C9_FifoDelivery ==
    /\ IsPrefix(delivered, published)
    /\ StrictlyIncreasing(Timestamps(delivered))

\* several Snapshots were delivered while others were still queued
C9_Witness ==
    /\ Len(delivered) >= 2
    /\ Len(metricsChan) >= 2

(* C10: a tick whose read fails publishes nothing and is not fatal: every
   Snapshot published or about to be sent is complete, every tick either
   failed or produced exactly one Snapshot, and after a failure the sampling
   goroutine of a running, unstopped collector is still alive. *)
C10_FailedTickDiscarded ==
    /\ \A k \in 1..Len(published) : Complete(published[k])
    /\ \A i \in Tasks : taskPc[i] = "send" => Complete(taskMetric[i])
    /\ Len(published) + Cardinality({i \in Tasks : taskPc[i] = "send"}) + failures = clock
    /\ (failures > 0 /\ running /\ ~stopsDone /\ panic = "none") => Alive # {}

\* a tick failed and a later tick was published
C10_Witness ==
    /\ failures > 0
    /\ \E k \in 1..Len(published) :
           /\ published[k].Timestamp = k + 1
           /\ k > 1 => published[k - 1].Timestamp = k - 1

(* ----------------------- claims: the network rates -------------------- *)

\* the cumulative counters of a reading and the fields of the NetworkStat made of them
CounterOf(c) == <<c.BytesRecv, c.BytesSent, c.PacketsRecv, c.PacketsSent>>
StatOf(st) == <<st.RxBytes, st.TxBytes, st.RxPackets, st.TxPackets>>

\* the counters k of the last reading whose interface had a previous reading
Known(k) == lastNet.counters[k].Name \in DOMAIN lastNet.prev
PrevOf(k) == lastNet.prev[lastNet.counters[k].Name]
\* the time (ms) between the last reading of interface k and its previous one
SinceSeen(k) == lastNet.at - lastNet.seen[lastNet.counters[k].Name]

(* C11: when a counter of a previously observed interface is lower than its
   previous reading, the value published for it is 0. *)
C11_NegativeDeltaClampedToZero ==
    lastNet.called =>
        \A k \in 1..Len(lastNet.counters) :
            Known(k) =>
                \A f \in 1..4 :
                    CounterOf(lastNet.counters[k])[f] < CounterOf(PrevOf(k))[f]
                        => StatOf(lastNet.stats[k])[f] = 0

(* C12: an interface read for the first time is published with its raw
   counters; an interface with a previous reading is published, for each
   counter that did not fall, with the increase of the counter divided by
   the seconds since that previous reading (as a whole number). *)
C12_RawThenRate ==
    lastNet.called =>
        /\ Len(lastNet.stats) = Len(lastNet.counters)
        /\ \A k \in 1..Len(lastNet.counters) :
               /\ lastNet.stats[k].Interface = lastNet.counters[k].Name
               /\ ~Known(k) => StatOf(lastNet.stats[k]) = CounterOf(lastNet.counters[k])
               /\ (Known(k) /\ SinceSeen(k) > 0) =>
                      \A f \in 1..4 :
                          CounterOf(lastNet.counters[k])[f] >= CounterOf(PrevOf(k))[f]
                              => StatOf(lastNet.stats[k])[f] =
                                     ((CounterOf(lastNet.counters[k])[f] - CounterOf(PrevOf(k))[f]) * 1000)
                                         \div SinceSeen(k)

(* C29: an interface with a previous reading is published with a rate of
   the change between its two readings, never with the raw counter: a
   counter that is where its previous reading left it is published as 0,
   whatever the time between the two readings (also none). *)
C29_RateNeverRaw ==
    lastNet.called =>
        \A k \in 1..Len(lastNet.counters) :
            Known(k) =>
                \A f \in 1..4 :
                    CounterOf(lastNet.counters[k])[f] = CounterOf(PrevOf(k))[f]
                        => StatOf(lastNet.stats[k])[f] = 0

\* interface k of the last reading was absent from the reading before it
Reappeared(k) ==
    Known(k) /\ lastNet.seen[lastNet.counters[k].Name] < lastNet.prevTime

(* C30: an interface that was absent from one or more readings and is back
   is published, for each counter that did not fall, with the increase since
   its own last reading divided by the seconds since that reading (as a
   whole number), not by the seconds since the previous reading of the
   others. *)
C30_ElapsedSinceOwnReading ==
    lastNet.called =>
        \A k \in 1..Len(lastNet.counters) :
            Reappeared(k) =>
                \A f \in 1..4 :
                    LET curr == CounterOf(lastNet.counters[k])[f]
                        prev == CounterOf(PrevOf(k))[f]
                    IN  curr >= prev =>
                            StatOf(lastNet.stats[k])[f] = ((curr - prev) * 1000) \div SinceSeen(k)

(* -------------------------- claims: the ranking ----------------------- *)

\* the received+transmitted sum of a NetworkStat
Sum(st) == st.RxBytes + st.TxBytes

\* the last run of the closure ranked the interfaces of the caller's Metric
Ranked == lastDraw.n > 0 /\ lastDraw.ranking /\ callerPc = "idle"

\* the place of a name in the ranking, 0 when it is not ranked
PlaceOf(name) ==
    IF \E p \in 1..Len(topInterfaces) : topInterfaces[p] = name
    THEN CHOOSE p \in 1..Len(topInterfaces) : topInterfaces[p] = name
    ELSE 0

(* C13: ties keep the provider's order: of two interfaces with the same
   sum, the later one of the Snapshot is ranked only if the earlier one is,
   and then behind it. *)
C13_TiesKeepProviderOrder ==
    Ranked =>
        LET network == callerMetric.Network
        IN  \A i, j \in 1..Len(network) :
                (i < j /\ Sum(network[i]) = Sum(network[j])
                       /\ PlaceOf(network[j].Interface) > 0)
                    => /\ PlaceOf(network[i].Interface) > 0
                       /\ PlaceOf(network[i].Interface) < PlaceOf(network[j].Interface)

(* C14: the ranking holds the names of at most three interfaces of the
   Snapshot it was computed from (all of them when there are fewer), none
   twice, by descending sum, and no interface left out has a larger sum
   than a ranked one. *)
C14_TopThreeByDescendingSum ==
    Ranked =>
        LET network == callerMetric.Network
            SumOf(name) == Sum(network[CHOOSE k \in 1..Len(network) :
                                           network[k].Interface = name])
        IN  /\ Len(topInterfaces) <= TopN
            /\ Len(topInterfaces) = IF Len(network) < TopN THEN Len(network) ELSE TopN
            /\ \A p \in 1..Len(topInterfaces) :
                   \E k \in 1..Len(network) : network[k].Interface = topInterfaces[p]
            /\ \A p, q \in 1..Len(topInterfaces) :
                   p < q => /\ topInterfaces[p] # topInterfaces[q]
                            /\ SumOf(topInterfaces[p]) >= SumOf(topInterfaces[q])
            /\ \A k \in 1..Len(network), p \in 1..Len(topInterfaces) :
                   PlaceOf(network[k].Interface) = 0
                       => Sum(network[k]) <= SumOf(topInterfaces[p])

(* ------------------------- claims: the throttling --------------------- *)

\* this step is a run of the closure of renderMetrics for the API caller
CallerDrawStep == lastDraw'.n = lastDraw.n + 1 /\ callerPc = "Render"

(* C15: a run of the closure less than 5 s after the memory panel's last
   render leaves the panel's text and its last-render time as they were; a
   run at or after 5 s draws the Metric's memory and sets the last-render
   time to now; so two renders of the panel are at least 5 s apart. *)
C15_MemoryPanelThrottled ==
    [][CallerDrawStep =>
          IF now - lastMemoryUpdate < MemoryCadence
          THEN /\ memoryView' = memoryView
               /\ lastMemoryUpdate' = lastMemoryUpdate
          ELSE /\ memoryView' = MemoryText(callerMetric, showGoRuntime)
               /\ lastMemoryUpdate' = now
               /\ lastMemoryUpdate' - lastMemoryUpdate >= MemoryCadence]_vars

(* the memory panel was redrawn exactly 5 s after its first render and a
   run 4 s later, with another Metric, left that text in place *)
C15_Witness ==
    /\ callerPc = "idle"
    /\ lastDraw.n >= 3
    /\ ~lastDraw.memory
    /\ lastMemoryUpdate = 1000 + MemoryCadence
    /\ now - lastMemoryUpdate = 4000
    /\ memoryView # MemoryText(callerMetric, showGoRuntime)

(* C16: a run of the closure less than 5 s after the network table's last
   redraw leaves the table and its last-redraw time as they were; a run at
   or after 5 s redraws it; so two redraws of the table are at least 5 s
   apart. *)
C16_NetworkTableThrottled ==
    [][CallerDrawStep =>
          IF now - lastNetworkUpdate < NetworkCadence
          THEN /\ networkView' = networkView
               /\ lastNetworkUpdate' = lastNetworkUpdate
          ELSE /\ networkView' = NetworkText(callerMetric, topInterfaces')
               /\ lastNetworkUpdate' = now
               /\ lastNetworkUpdate' - lastNetworkUpdate >= NetworkCadence]_vars

(* the table was redrawn 5 s after its first redraw and a run 4 s later,
   with a Metric that would change it, left it in place *)
C16_Witness ==
    /\ callerPc = "idle"
    /\ lastDraw.n >= 3
    /\ ~lastDraw.network
    /\ lastNetworkUpdate = 1000 + NetworkCadence
    /\ now - lastNetworkUpdate = 4000
    /\ networkView # NetworkText(callerMetric, topInterfaces)

(* C17: a run of the closure less than 30 s after the last ranking leaves
   the top names and the last-ranking time as they were; two rankings are
   at least 30 s apart. *)
C17_RankingThrottled ==
    [][CallerDrawStep =>
          /\ now - lastInterfaceUpdate < RankingCadence
                 => /\ topInterfaces' = topInterfaces
                    /\ lastInterfaceUpdate' = lastInterfaceUpdate
          /\ lastInterfaceUpdate' # lastInterfaceUpdate
                 => lastInterfaceUpdate' - lastInterfaceUpdate >= RankingCadence]_vars

(* 29 s after the ranking a run redrew the network table of a Metric whose
   own ranking differs, and the top names stayed *)
C17_Witness ==
    /\ callerPc = "idle"
    /\ lastDraw.n >= 2
    /\ ~lastDraw.ranking
    /\ lastDraw.network
    /\ now - lastInterfaceUpdate = 29000
    /\ \A go \in GoVersions : topInterfaces # TopInterfaces(callerMetric.Network, go)

(* C18: every run of the closure draws the CPU panel and the disk panel of
   its Metric, whatever the throttled panels do. *)
C18_CpuAndDiskEveryRun ==
    [][CallerDrawStep =>
          /\ cpuView' = CpuText(callerMetric)
          /\ diskView' = DiskText(callerMetric)]_vars

(* a run that skipped the memory panel, the ranking and the network table
   drew the CPU and disk panels of a Metric the memory panel does not show *)
C18_Witness ==
    /\ callerPc = "idle"
    /\ lastDraw.n >= 2
    /\ ~lastDraw.memory /\ ~lastDraw.ranking /\ ~lastDraw.network
    /\ cpuView = CpuText(callerMetric)
    /\ diskView = DiskText(callerMetric)
    /\ memoryView # MemoryText(callerMetric, showGoRuntime)
    /\ networkView # NetworkText(callerMetric, topInterfaces)

(* ----------------------- claims: the consumer loop -------------------- *)

(* C19: once the context is cancelled, or the queue is closed and empty, a
   consumer that has not exited is never stuck: it can exit, or finish the
   render it is in. *)
C19_ConsumerNeverStuck ==
    (/\ panic = "none"
     /\ consumerPc \in {"recv", "render"}
     /\ (ctxDone \/ (chanClosed /\ metricsChan = <<>>)))
        => ENABLED (UpdateCancelled \/ UpdateClosed \/ DrawForConsumer)

(* C20: the panels, the throttle times and the top names change only when
   the event loop runs one queued closure of renderMetrics, which lets
   exactly one waiting caller of renderMetrics go on, whichever goroutine
   called it. *)
C20_RendersSerialized ==
    [][panelVars' # panelVars =>
          /\ LoopRunning
          /\ lastDraw'.n = lastDraw.n + 1
          /\ \/ /\ consumerPc = "render" /\ consumerPc' = "recv"
                /\ callerPc' = callerPc
             \/ /\ callerPc = "Render" /\ callerPc' = "idle"
                /\ consumerPc' = consumerPc]_vars

(* the update goroutine and the API caller wait in renderMetrics at the
   same time, after closures of both have run *)
C20_Witness ==
    /\ consumerPc = "render"
    /\ callerPc = "Render"
    /\ lastDraw.n >= 2
    /\ cpuView = CpuText(ClientMetric)
    /\ Len(delivered) >= 2


(* ------------------ the collector under fair scheduling --------------- *)

(* The directly driven collector with the Go scheduler's guarantees: a
   goroutine that can send or return does so, and a select whose stop case
   is ready again and again does not pick the ticker case for ever *)
SpecCollectorFair ==
    /\ Init
    /\ [][NextCollector]_vars
    /\ WF_vars(\E i \in Tasks : TaskPublish(i))
    /\ SF_vars(\E i \in Tasks : TaskStopSignal(i))
    /\ WF_vars(\E i \in Tasks : TaskStopClosed(i))

(* ------------------------ claims: stopping, again --------------------- *)

(* C21: a call of Stop on a running collector ends the sampling goroutine:
   from the moment Stop is waiting to hand over the stop signal, the
   collector eventually has no live sampling goroutine. *)
C21_StopTerminatesTask ==
    [](callerPc = "Stop" => <>(Alive = {}))


(* --------------------- a client that starts and waits ----------------- *)

\* the intervals (ms) and waits (ms) of the start / sleep / stop clients
TimedIntervals == {50, 100}
Waits == {60, 100, 175, 250}

(* collector.Start(interval, metricsChan); time.Sleep(w): the goroutine is
   spawned and creates its ticker at once; the caller sleeps until now + w *)
CallStartAndSleep(interval, w) ==
    /\ panic = "none"
    /\ callerPc = "idle"
    /\ Spawned = {}
    /\ Start(interval)
    /\ callerPc' = "Sleep"
    /\ wakeAt' = now + w
    /\ UNCHANGED <<gateRead, peer, cli>>
    /\ UNCHANGED <<chanVars, uiVars, panic, clock, failures, published, delivered,
                   stopsDone, uiStopped>>
    /\ UNCHANGED netVars
    /\ UNCHANGED renderVars

(* time.Sleep returns at wakeAt, once the goroutine has taken every tick
   due before that time, and the caller calls collector.Stop() *)
SleepReturnsStop ==
    /\ panic = "none"
    /\ callerPc = "Sleep"
    /\ nextTick >= wakeAt
    /\ now' = wakeAt
    /\ StopEnter("Stop", "idle")
    /\ UNCHANGED <<tickerPeriod, taskVars, chanVars, uiVars, clock, failures,
                   published, delivered, startedTwice, stopsDone, uiStopped>>
    /\ UNCHANGED <<prevNetStats, prevTime, seenAt, lastNet>>
    /\ UNCHANGED renderVars
    /\ UNCHANGED <<timerVars, clientVars>>

(* case <-ticker.C for a tick that is due by the time the sleep ends: a
   tick due at that very time and the stop signal are both ready, and the
   select takes either *)
DueTick(i) == nextTick <= wakeAt /\ TaskTick(i)

NextTimed ==
    \/ \E interval \in TimedIntervals, w \in Waits : CallStartAndSleep(interval, w)
    \/ SleepReturnsStop
    \/ \E i \in Tasks : DueTick(i)
    \/ \E i \in Tasks : TaskPublish(i)
    \/ \E i \in Tasks : TaskStopSignal(i)

SpecTimed == Init /\ [][NextTimed]_vars

(* --------------------------- claims: the count ------------------------ *)

(* C22: with no failed read, after Start(i), a wait of w and Stop, the
   number of published Snapshots is floor(w/i) or floor(w/i) + 1. *)
C22_CountWithinFloor ==
    (callerPc = "idle" /\ stopsDone /\ failures = 0 /\ startInterval > 0
                       /\ Len(metricsChan) < ChanCap)
        => /\ Len(published) >= wakeAt \div startInterval
           /\ Len(published) <= wakeAt \div startInterval + 1


(* -------------------------- claims: the interval ---------------------- *)

\* the period the claim gives a Start with this interval: 100 ms when non-positive
ClaimedPeriod(interval) == IF interval <= 0 THEN 100 ELSE interval

(* C23: a Start that spawns the goroutine never fails, whatever the sign of
   its interval, and the goroutine's ticker has a period of 100 ms when the
   interval is not positive and of the interval itself otherwise: two
   ticks are that far apart. *)
C23_NonPositiveIntervalClamped ==
    [][/\ Spawned' # Spawned
           => /\ panic' = "none"
              /\ running'
              /\ tickerPeriod' = ClaimedPeriod(startInterval')
       /\ clock' = clock + 1
           => nextTick' - nextTick = ClaimedPeriod(startInterval)]_vars

\* a collector started with a negative interval has published three ticks
\* 100 ms apart
C23_Witness ==
    /\ startInterval < 0
    /\ tickerPeriod = 100
    /\ Len(published) >= 3
    /\ now = 300


(* ------------------- the monitor with both toggles -------------------- *)

(* The monitor between two ticks of its collector: the user presses 'g', a
   client calls ToggleGoRuntime and renders Metrics through RenderMetrics *)
NextToggle ==
    \/ UIStart
    \/ KeyG
    \/ CallToggleGoRuntime
    \/ ToggleGoRuntimeWrite
    \/ \E m \in RenderInputs, d \in RenderElapsedMs : CallRenderMetrics(m, d)
    \/ DrawForCaller

SpecToggle == Init /\ [][NextToggle]_vars

(* ---------------------------- claims: the gate ------------------------ *)

\* the memory panel shows the Go runtime lines
RuntimeShown(view) == Len(view) > 0 /\ view[1].GoRuntime # <<>>

\* this step completes a toggle: the key handler's, or ToggleGoRuntime's write
ToggleDone ==
    \/ showGoRuntime' # showGoRuntime
    \/ callerPc = "Toggle" /\ callerPc' = "idle"

(* C24: a toggle negates showGoRuntime (so two toggles restore it) and
   changes neither the queue nor any panel, throttle time or top name; a
   redraw of the memory panel shows the runtime lines exactly when the gate
   is true at that redraw; and no other step changes the memory panel, so a
   toggle shows only at the next redraw the throttle lets through. *)
C24_ToggleOnlyFlipsGate ==
    [][/\ ToggleDone
           => /\ showGoRuntime' = ~showGoRuntime
              /\ metricsChan' = metricsChan
              /\ panelVars' = panelVars
       /\ (lastDraw'.n = lastDraw.n + 1 /\ lastDraw'.memory)
           => (RuntimeShown(memoryView') <=> showGoRuntime)
       /\ memoryView' # memoryView
           => (lastDraw'.n = lastDraw.n + 1 /\ lastDraw'.memory)]_vars


(* ---------------------------- claims: the CPU ------------------------- *)

(* C25: every Snapshot the collector produces carries one CPU figure per
   logical core: the Snapshot a goroutine is sending, those in the buffer
   and all that were ever published have a cpu sequence of length
   runtime.NumCPU(), the same over the whole run. *)
C25_CpuLengthIsCoreCount ==
    /\ \A i \in Tasks : taskPc[i] = "send" => Len(taskMetric[i].CPU) = NumCPU
    /\ \A k \in 1..Len(metricsChan) : Len(metricsChan[k].CPU) = NumCPU
    /\ \A k \in 1..Len(published) : Len(published[k].CPU) = NumCPU

\* two goroutines of a restarted collector have published, a third
\* Snapshot is being sent
C25_Witness ==
    /\ Len(published) >= 2
    /\ Cardinality(Spawned) = 2
    /\ \E i \in Tasks : taskPc[i] = "send" /\ Len(taskMetric[i].CPU) = NumCPU
    /\ published[1].CPU = published[Len(published)].CPU


(* --------------------------- claims: the queue ------------------------ *)

(* C26: a call of Stop changes nothing in the queue: neither the step that
   enters Stop nor the step at which Stop returns changes the buffer or
   closes the channel, so with nobody receiving, the buffer after Stop
   holds every Snapshot published so far, in the order published, on an
   open channel. *)
C26_StopLeavesQueue ==
    [][callerPc' # callerPc
          => /\ metricsChan' = metricsChan
             /\ chanClosed' = chanClosed
             /\ ~chanClosed'
             /\ metricsChan' = published']_vars

\* Stop has returned and the buffer holds the Snapshots published before it
C26_Witness ==
    /\ stopsDone
    /\ callerPc = "idle"
    /\ ~running
    /\ Len(metricsChan) >= 2
    /\ metricsChan = published


(* -------------------------- a second collector ------------------------ *)

\* the state of the first collector, its goroutines and its channel
firstVars == <<collectorVars, taskVars, chanVars, prevNetStats, prevTime,
               published, timerVars>>

\* collector2.Start(100*time.Millisecond, metricsChan2)
CallPeerStart ==
    /\ panic = "none"
    /\ callerPc = "idle"
    /\ peer.pc = "unborn"
    /\ peer' = [peer EXCEPT !.running = TRUE, !.pc = "select",
                            !.nextTick = now + UIInterval]
    /\ UNCHANGED <<firstVars, uiVars, callerPc, panic, clock, failures, delivered,
                   startedTwice, stopsDone, uiStopped, now, seenAt, lastNet,
                   renderVars, wakeAt, gateRead, cli>>

(* the second collector's goroutine, case <-ticker.C: Collect with its own
   network map, with readings that succeed *)
PeerTick ==
    /\ panic = "none"
    /\ peer.pc = "select"
    /\ clock < MaxUITicks
    /\ now' = IF peer.nextTick > now THEN peer.nextTick ELSE now
    /\ clock' = clock + 1
    /\ \E partitionRead \in {p \in PartitionReads : ~p.err},
          read \in {c \in TickCounterReads : ~c.err}, arch \in Archs :
         LET net == collectNetworkMetrics(read, peer.prevNetStats, peer.prevTime,
                                          now', arch)
             r == Collect(clock + 1, collectDiskMetrics(partitionRead),
                          [err |-> net.err, stats |-> net.stats])
         IN  peer' = [peer EXCEPT !.pc = "send", !.metric = r.metric,
                                  !.prevNetStats = net.prevNetStats,
                                  !.prevTime = net.prevTime,
                                  !.nextTick = peer.nextTick + UIInterval]
    /\ UNCHANGED <<firstVars, uiVars, callerPc, panic, failures, delivered,
                   startedTwice, stopsDone, uiStopped, seenAt, lastNet,
                   renderVars, wakeAt, gateRead, cli>>

\* the second collector's goroutine, metricsChan2 <- *metric
PeerPublish ==
    /\ panic = "none"
    /\ peer.pc = "send"
    /\ Len(peer.chan) < ChanCap
    /\ peer' = [peer EXCEPT !.pc = "select",
                            !.chan = Append(peer.chan, peer.metric),
                            !.published = Append(peer.published, peer.metric)]
    /\ UNCHANGED <<firstVars, uiVars, callerPc, panic, clock, failures, delivered,
                   startedTwice, stopsDone, uiStopped, now, seenAt, lastNet,
                   renderVars, wakeAt, gateRead, cli>>

\* collector2.Stop() up to its send on the second collector's stopChan
CallPeerStop ==
    /\ panic = "none"
    /\ callerPc = "idle"
    /\ IF ~peer.running
       THEN UNCHANGED <<callerPc, panic>>
       ELSE IF peer.stopChan = "closed"
       THEN panic' = "Stop: send on closed channel" /\ UNCHANGED callerPc
       ELSE callerPc' = "PeerStop" /\ UNCHANGED panic
    /\ UNCHANGED <<firstVars, uiVars, clock, failures, delivered,
                   startedTwice, stopsDone, uiStopped, now, seenAt, lastNet,
                   renderVars, clientVars>>

(* A faulty collector: stopChan is one channel shared by all collectors, so
   the signal of collector2.Stop() is taken by a goroutine of the first
   collector *)
PeerStopSignalShared ==
    /\ panic = "none"
    /\ callerPc = "PeerStop"
    /\ \E i \in Tasks :
           /\ taskPc[i] = "select"
           /\ taskPc' = [taskPc EXCEPT ![i] = "done"]
    /\ peer' = [peer EXCEPT !.running = FALSE, !.stopChan = "closed"]
    /\ callerPc' = "idle"
    /\ UNCHANGED <<collectorVars, taskMetric, chanVars, prevNetStats, prevTime,
                   published, timerVars, uiVars, panic, clock, failures,
                   delivered, startedTwice, stopsDone, uiStopped, now, seenAt,
                   lastNet, renderVars, wakeAt, gateRead, cli>>

(* the second collector's goroutine, case <-c.stopChan: it returns, and
   collector2.Stop() goes on: running = false; close(stopChan) *)
PeerStopSignal ==
    /\ panic = "none"
    /\ callerPc = "PeerStop"
    /\ peer.pc = "select"
    /\ peer' = [peer EXCEPT !.pc = "done", !.running = FALSE, !.stopChan = "closed"]
    /\ callerPc' = "idle"
    /\ UNCHANGED <<firstVars, uiVars, panic, clock, failures, delivered,
                   startedTwice, stopsDone, uiStopped, now, seenAt, lastNet,
                   renderVars, wakeAt, gateRead, cli>>

\* collector1.Start(100*time.Millisecond, metricsChan1)
CallFirstStart ==
    /\ panic = "none"
    /\ callerPc = "idle"
    /\ Spawned = {}
    /\ Start(UIInterval)
    /\ UNCHANGED <<chanVars, uiVars, callerPc, panic, clock, failures, published,
                   delivered, stopsDone, uiStopped>>
    /\ UNCHANGED netVars
    /\ UNCHANGED renderVars
    /\ UNCHANGED clientVars

(* A client with two collectors, each started once on a channel of its own
   that nobody receives from, and stopped in any order *)
NextPeers ==
    \/ CallFirstStart
    \/ CallStop
    \/ \E i \in Tasks : EarlyTick(i)
    \/ \E i \in Tasks : TaskPublish(i)
    \/ \E i \in Tasks : TaskStopSignal(i)
    \/ CallPeerStart
    \/ CallPeerStop
    \/ PeerTick
    \/ PeerPublish
    \/ PeerStopSignal

SpecPeers == Init /\ [][NextPeers]_vars


(* ---------------------- claims: several collectors -------------------- *)

\* the Metrics of a sequence, as a set
Elements(q) == {q[k] : k \in 1..Len(q)}

(* C27: two collectors do not interfere: a step of one (its Start, its
   Stop, its goroutine's tick, send or return) changes nothing of the
   other: not its running flag, its stop channel, its goroutine, its
   channel or its network baseline; and each channel holds exactly the
   Snapshots its own collector published, none of the other's. *)
C27_CollectorsIndependent ==
    [][/\ peer' # peer => firstVars' = firstVars
       /\ firstVars' # firstVars => peer' = peer
       /\ metricsChan' = published'
       /\ peer'.chan = peer'.published
       /\ Elements(metricsChan') \cap Elements(peer'.chan) = {}]_vars

(* the second collector has been stopped after publishing, and the first
   one is still running with its goroutine alive and has published too *)
C27_Witness ==
    /\ peer.pc = "done"
    /\ ~peer.running
    /\ Len(peer.published) >= 1
    /\ running
    /\ Cardinality(Alive) = 1
    /\ Len(published) >= 2
    /\ callerPc = "idle"


(* --------------------------- the command line ------------------------- *)

\* the state of the monitor, untouched by the start of the command
programVars == <<collectorVars, taskVars, chanVars, uiVars, callerPc, panic,
                 histVars, netVars, renderVars, timerVars, wakeAt, gateRead, peer>>

\* rootCmd.Execute(): cobra parses the flags of `godash <command> ...`
CliParse(command, args) ==
    /\ cli.pc = "start"
    /\ LET r == ParseFlags(command, args)
       IN  cli' = [cli EXCEPT !.pc = IF r.err THEN "usage" ELSE "parsed",
                              !.command = command, !.args = args,
                              !.cfg = r.cfg, !.changed = r.changed]
    /\ UNCHANGED programVars

(* PersistentPreRunE runs before the command: on an error of LoadConfig the
   command is not run *)
CliPreRun(file) ==
    /\ cli.pc = "parsed"
    /\ LET r == PersistentPreRunE(cli.cfg, cli.changed, file)
       IN  cli' = [cli EXCEPT !.pc = IF r.err THEN "failed" ELSE "ready",
                              !.cfg = r.cfg, !.file = file]
    /\ UNCHANGED programVars

NextCli ==
    \/ \E command \in {"monitor", "server"}, args \in ArgSets : CliParse(command, args)
    \/ \E file \in ConfigFiles : CliPreRun(file)

SpecCli == Init /\ [][NextCli]_vars

(* ----------------------- claims: the configuration -------------------- *)

(* C28: when the command is about to run, each of interval, go-runtime and
   port has the value given on the command line if its flag was given, and
   otherwise the value of the config file, or the default (1 s, off, 8080)
   when no file was found or the file does not set it. *)
C28_FlagsOverrideFile ==
    cli.pc = "ready" =>
        \A s \in Settings :
            cli.cfg[s] = IF cli.args[s] # NotSet THEN cli.args[s][1]
                         ELSE IF cli.file.found /\ cli.file.keys[s] # NotSet
                              THEN cli.file.keys[s][1]
                         ELSE CASE s = "RefreshInterval" -> 1
                                [] s = "WebPort" -> 8080
                                [] s = "EnableGoRuntime" -> FALSE

(* godash server --interval 3 with a file that sets refresh_interval = 5,
   web_port = 7070 and enable_go_runtime = true: the flag wins for the
   interval, the file for the other two *)
C28_Witness ==
    /\ cli.pc = "ready"
    /\ cli.args = [RefreshInterval |-> <<3>>, WebPort |-> NotSet, EnableGoRuntime |-> NotSet]
    /\ cli.file.found
    /\ cli.file.keys = [RefreshInterval |-> <<5>>, WebPort |-> <<7070>>,
                       EnableGoRuntime |-> <<TRUE>>]
    /\ cli.cfg = [RefreshInterval |-> 3, WebPort |-> 7070, EnableGoRuntime |-> TRUE]


(* ----------------------- claims: the network table -------------------- *)

\* the NetworkStats of the Metric with the given interface name
StatsNamed(network, name) ==
    {network[k] : k \in {j \in 1..Len(network) : network[j].Interface = name}}

\* how many of the first p names of top the Metric has
PresentUpTo(network, top, p) ==
    Cardinality({q \in 1..p : StatsNamed(network, top[q]) # {}})

(* C31: a run of the closure that redraws the network table without
   ranking keeps the top names; the table's header is those names, and its
   values are, in the order of the names, those the Metric being rendered
   has under each name; a top name the Metric lacks has no values in this
   redraw and stays a top name. *)
C31_TableLooksUpChosenNames ==
    [][(/\ CallerDrawStep
        /\ now - lastInterfaceUpdate < RankingCadence
        /\ now - lastNetworkUpdate >= NetworkCadence) =>
          LET network == callerMetric.Network
              top == topInterfaces
          IN  /\ topInterfaces' = top
              /\ IF Len(top) = 0
                 THEN networkView' = NoText
                 ELSE /\ Len(networkView') = 1
                      /\ networkView'[1].header = top
                      /\ Len(networkView'[1].columns) = PresentUpTo(network, top, Len(top))
                      /\ \A p \in 1..Len(top) :
                             StatsNamed(network, top[p]) # {} =>
                                 \E st \in StatsNamed(network, top[p]) :
                                     LET col == networkView'[1].columns[PresentUpTo(network, top, p)]
                                     IN  /\ col.RxBytes = st.RxBytes
                                         /\ col.TxBytes = st.TxBytes
                                         /\ col.RxPackets = st.RxPackets
                                         /\ col.TxPackets = st.TxPackets]_vars

(* the table was redrawn, without ranking, from a Metric that has only the
   first of the three top names: three names in the header, one column *)
C31_Witness ==
    /\ callerPc = "idle"
    /\ lastDraw.network /\ ~lastDraw.ranking
    /\ Len(topInterfaces) = 3
    /\ Len(callerMetric.Network) = 1
    /\ Len(networkView) = 1
    /\ networkView[1].header = topInterfaces
    /\ Len(networkView[1].columns) = 1
    /\ networkView[1].columns[1].RxBytes = callerMetric.Network[1].RxBytes


(* ------------------- the monitor and empty Snapshots ------------------ *)

(* the Metric a client of the running monitor renders: no CPU figure, no
   disk, no interface and zero values *)
EmptyMetric == RenderInput(NilSlice, 0, NilSlice, NilSlice)

(* the client's one call of ui.RenderMetrics, with the empty Metric, a
   network cadence after the last step that took time *)
CallRenderEmpty ==
    /\ callerMetric # EmptyMetric
    /\ CallRenderMetrics(EmptyMetric, NetworkCadence)

(* The terminal monitor with its keys and UI.Stop, while a client renders
   a Metric with empty fields through RenderMetrics *)
NextEmpty ==
    \/ UIStart
    \/ KeyQ
    \/ UIStopBegin
    \/ UIStopClose
    \/ UpdateRecv
    \/ DrawForConsumer
    \/ UpdateClosed
    \/ UpdateCancelled
    \/ \E i \in Tasks : EarlyTick(i)
    \/ \E i \in Tasks : TaskPublish(i)
    \/ \E i \in Tasks : TaskStopSignal(i)
    \/ CallRenderEmpty
    \/ DrawForCaller

SpecEmpty == Init /\ [][NextEmpty]_vars

(* ------------------------ claims: empty Snapshots --------------------- *)

\* this step is a run of the closure of renderMetrics
DrawStep == lastDraw'.n = lastDraw.n + 1
\* the Metric that run renders
DrawnMetric == IF callerPc' # callerPc THEN callerMetric ELSE delivered[Len(delivered)]
\* this step ends the loop of UI.update
ConsumerExits ==
    /\ consumerPc \notin {"exitClosed", "exitCancelled"}
    /\ consumerPc' \in {"exitClosed", "exitCancelled"}

(* C32 as stated: a run of the closure on a Metric with an empty cpu, disk
   or network sequence does not fail and leaves the section it redraws
   empty; the loop of UI.update ends only when the context is cancelled or
   the queue is closed. *)
C32_EmptyFieldsRenderEmpty ==
    [][/\ DrawStep =>
            /\ panic' = "none"
            /\ Len(DrawnMetric.CPU) = 0 => cpuView' = NoText
            /\ Len(DrawnMetric.Disk) = 0 => diskView' = NoText
            /\ (Len(DrawnMetric.Network) = 0 /\ lastDraw'.network) => networkView' = NoText
       /\ ConsumerExits => (ctxDone \/ chanClosed)]_vars

(* C32, amended: as stated for the cpu and disk panels and the end of the
   loop; a network table redrawn from a Metric without interfaces shows no
   values: it is empty when the ranking ran too, and otherwise keeps the
   header of the top names chosen before. *)
C32_EmptyFieldsNeverFail ==
    [][/\ DrawStep =>
            /\ panic' = "none"
            /\ Len(DrawnMetric.CPU) = 0 => cpuView' = NoText
            /\ Len(DrawnMetric.Disk) = 0 => diskView' = NoText
            /\ (Len(DrawnMetric.Network) = 0 /\ lastDraw'.network) =>
                   IF lastDraw'.ranking \/ Len(topInterfaces) = 0
                   THEN networkView' = NoText /\ topInterfaces' = <<>>
                   ELSE /\ topInterfaces' = topInterfaces
                        /\ networkView' = <<[header |-> topInterfaces, columns |-> <<>>]>>
       /\ ConsumerExits => (ctxDone \/ chanClosed)]_vars

(* the client's Metric without any field was drawn while the monitor runs:
   empty cpu and disk panels, a network table with the header of the names
   ranked before and no values; the update goroutine is still in its loop *)
C32_Witness ==
    /\ callerPc = "idle"
    /\ callerMetric = EmptyMetric
    /\ cpuView = NoText /\ diskView = NoText
    /\ lastDraw.network /\ ~lastDraw.ranking
    /\ Len(networkView) = 1 /\ networkView[1].columns = <<>>
    /\ Len(delivered) > 0
    /\ consumerPc = "recv"
    /\ panic = "none"


(* ------------------------ claims: the closed queue -------------------- *)

(* C33: when the queue is closed while Metrics remain in it, the update
   goroutine takes and renders all of them, in order, before it leaves its
   loop: it does not leave the loop of a closed queue that still holds a
   Metric, and by then it has been handed every Metric published. *)
C33_ClosedQueueDrained ==
    [][(ConsumerExits /\ chanClosed) =>
          /\ metricsChan = <<>>
          /\ delivered = published]_vars


(* ------------------------- claims: the CPU panel ---------------------- *)

(* C34: on a host with NumCPU logical cores every Snapshot published
   carries the aggregate and then one figure per core, and the CPU panel
   drawn from a Snapshot shows the aggregate and NumCPU bars. *)
C34_AggregateThenCores ==
    /\ \A k \in 1..Len(published) : Len(published[k].CPU) = NumCPU + 1
    /\ (Len(delivered) > 0 /\ lastDraw.n > 0) =>
           /\ Len(cpuView) = 1
           /\ Len(cpuView[1].cores) = NumCPU


(* ---------------------- the monitor and its own Stop ------------------ *)

(* The terminal monitor driven through the UI only: UI.Start, the keys and
   UI.Stop from another goroutine, with the update goroutine, the event
   loop and the sampling goroutine; the collector is not called directly *)
NextQuit ==
    \/ UIStart
    \/ KeyQ
    \/ KeyG
    \/ UIStopBegin
    \/ UIStopClose
    \/ UpdateRecv
    \/ DrawForConsumer
    \/ UpdateClosed
    \/ UpdateCancelled
    \/ \E i \in Tasks : EarlyTick(i)
    \/ \E i \in Tasks : TaskPublish(i)
    \/ \E i \in Tasks : TaskStopSignal(i)

SpecQuit == Init /\ [][NextQuit]_vars

(* C35: whatever the order of UI.Start, the quit key, UI.Stop and the steps
   of the sampling goroutine, no Metric is sent on the closed queue: when
   the queue is closed no sampling goroutine is alive, UI.Stop having
   closed it after the goroutine took the stop signal. *)
C35_NoSendOnClosedQueue ==
    /\ panic # "task: send on closed channel"
    /\ chanClosed => Alive = {}


(* --------------------------- claims: restart -------------------------- *)

(* C36: over any sequence of Start and Stop calls on one collector no call
   sends on the closed stop channel or closes it again, and a running
   collector, restarted or not, has its one sampling goroutine alive (it
   publishes until the next Stop). *)
C36_RestartKeepsSampling ==
    /\ panic # "Stop: send on closed channel"
    /\ running => Cardinality(Alive) = 1


(* ------------------------- the monitor command ------------------------ *)

\* `godash monitor` with or without --interval
MonitorArgs ==
    {a \in ArgSets : a.WebPort = NotSet /\ a.EnableGoRuntime = NotSet}

\* no config file, or one that sets refresh_interval = 5
MonitorFiles ==
    {f \in ConfigFiles :
        /\ ~f.bad
        /\ f.keys.WebPort = NotSet /\ f.keys.EnableGoRuntime = NotSet
        /\ f.keys.RefreshInterval \in {NotSet, <<5>>}}

(* monitorCmd.Run: core.RunMonitor(cfg) makes the collector and the UI and
   calls ui.Start(cfg.RefreshInterval seconds) *)
RunMonitor ==
    /\ cli.pc = "ready"
    /\ cli.command = "monitor"
    /\ showGoRuntime = cli.cfg.EnableGoRuntime
    /\ UIStart

(* `godash monitor`, from the command line to the running terminal
   monitor *)
NextMonitor ==
    \/ \E args \in MonitorArgs : CliParse("monitor", args)
    \/ \E file \in MonitorFiles : CliPreRun(file)
    \/ RunMonitor
    \/ UpdateRecv
    \/ DrawForConsumer
    \/ \E i \in Tasks : EarlyTick(i)
    \/ \E i \in Tasks : TaskPublish(i)

SpecMonitor == Init /\ [][NextMonitor]_vars

(* C37: the terminal monitor samples every 100 ms whatever refresh interval
   is configured: the collector's ticker has a period of 100 ms and two
   ticks are 100 ms apart. *)
C37_MonitorSamplesEvery100ms ==
    [][clock' = clock + 1 =>
          /\ tickerPeriod = 100
          /\ nextTick' - nextTick = 100
          /\ now' = clock' * 100]_vars

(* godash monitor with refresh_interval = 5 in the config file has
   published three Snapshots in 300 ms *)
C37_Witness ==
    /\ cli.pc = "ready"
    /\ cli.cfg.RefreshInterval = 5
    /\ uiPc = "running"
    /\ Len(published) = 3
    /\ now = 300


(* ------------------------ claims: the first render -------------------- *)

\* the interface names of a Metric
NamesOf(network) == {network[k].Interface : k \in 1..Len(network)}

(* C38: the first run of the closure after NewUI redraws the memory panel,
   the ranking and the network table, whenever it comes; and in every run
   that redraws the table, the table's header is the top names as that run
   leaves them (the ranking of this run when it ranked): on the first run
   they are names of the Metric rendered, each with its column. *)
C38_FirstRenderDrawsAll ==
    [][CallerDrawStep =>
          /\ lastDraw.n = 0 =>
                 /\ memoryView' # NoText /\ memoryView'[1].UsedPercentage = callerMetric.Memory
                 /\ lastMemoryUpdate' = now
                 /\ lastInterfaceUpdate' = now
                 /\ lastNetworkUpdate' = now
                 /\ Len(topInterfaces') =
                        (IF Len(callerMetric.Network) < 3 THEN Len(callerMetric.Network) ELSE 3)
                 /\ \A p \in 1..Len(topInterfaces') :
                        topInterfaces'[p] \in NamesOf(callerMetric.Network)
                 /\ Len(networkView') = 1
                 /\ Len(networkView'[1].columns) = Len(topInterfaces')
          /\ lastNetworkUpdate' # lastNetworkUpdate =>
                 IF Len(topInterfaces') = 0
                 THEN networkView' = NoText
                 ELSE Len(networkView') = 1 /\ networkView'[1].header = topInterfaces']_vars

(* the first run came 25 s after NewUI with a Metric of four interfaces:
   memory drawn, three names ranked and the table drawn with them *)
C38_Witness ==
    /\ callerPc = "idle"
    /\ lastDraw.n = 1
    /\ now = 25000
    /\ lastDraw.memory /\ lastDraw.ranking /\ lastDraw.network
    /\ Len(callerMetric.Network) = 4
    /\ Len(topInterfaces) = 3
    /\ networkView[1].header = topInterfaces
    /\ memoryView[1].UsedPercentage = callerMetric.Memory


(* ------------------------ claims: the rate baseline ------------------- *)

(* C39: a Collect that fails leaves prevNetStats and prevTime as they
   were; so the baseline of a successful Collect is the one the successful
   Collect before it left: its time and its counters, and an interface of
   both is rated over the whole time between the two, failed Collects in
   between or not. *)
C39_FailedTickKeepsBaseline ==
    [][/\ failures' # failures =>
              /\ prevNetStats' = prevNetStats
              /\ prevTime' = prevTime
       /\ (lastNet' # lastNet /\ lastNet.called) =>
              /\ lastNet'.prevTime = lastNet.at
              /\ \A k \in 1..Len(lastNet.counters) :
                     lastNet'.prev[lastNet.counters[k].Name] = lastNet.counters[k]
              /\ \A j \in 1..Len(lastNet'.counters), k \in 1..Len(lastNet.counters) :
                     (/\ lastNet'.counters[j].Name = lastNet.counters[k].Name
                      /\ lastNet'.at > lastNet.at) =>
                         \A f \in 1..4 :
                             LET curr == CounterOf(lastNet'.counters[j])[f]
                                 prev == CounterOf(lastNet.counters[k])[f]
                             IN  curr >= prev =>
                                     StatOf(lastNet'.stats[j])[f] =
                                         ((curr - prev) * 1000) \div (lastNet'.at - lastNet.at)]_vars

(* a Collect failed 0.5 s after a successful one, and the Collect 2 s later
   rated eth0, gone from 3 to 10, over the 2.5 s: 2 per second *)
C39_Witness ==
    /\ failures = 1
    /\ lastNet.called
    /\ lastNet.at - lastNet.prevTime = 2500
    /\ prevTime = lastNet.at
    /\ \E k \in 1..Len(lastNet.counters) :
           /\ Known(k)
           /\ PrevOf(k).BytesRecv = 3
           /\ lastNet.counters[k].BytesRecv = 10
           /\ lastNet.stats[k].RxBytes = 2


(* ------------------- the monitor under fair scheduling ---------------- *)

(* The terminal monitor left alone, with the Go scheduler's guarantees: a
   goroutine that can receive or send does so, and the running event loop
   runs a queued closure *)
SpecStreamFair ==
    /\ Init
    /\ [][NextStream]_vars
    /\ WF_vars(UpdateRecv)
    /\ WF_vars(DrawForConsumer)
    /\ WF_vars(\E i \in Tasks : TaskPublish(i))

(* ---------------------------- claims: progress ------------------------ *)

\* every Snapshot published so far has been received and its closure has run
CaughtUp == delivered = published /\ lastDraw.n = Len(published)

(* this step is the run of the closure for the next Snapshot in publish
   order, which draws the CPU panel from it *)
DrawsNextPublished ==
    /\ lastDraw'.n = lastDraw.n + 1
    /\ lastDraw'.n <= Len(delivered)
    /\ delivered[lastDraw'.n] = published[lastDraw'.n]
    /\ cpuView' # NoText
    /\ cpuView'[1].overall = published[lastDraw'.n].CPU[1]

\* a sampling goroutine waits to send into the full buffer
BlockedOnFullBuffer ==
    \E i \in Tasks : taskPc[i] = "send" /\ Len(metricsChan) = ChanCap

(* C40: with no stop and no cancellation, under fair scheduling, every
   Snapshot published is eventually received by the update goroutine and
   drawn on the CPU panel: the closures of the Snapshots run one after the
   other in publish order, so either they go on running for ever or, the
   Sampler having published its last, all of them have run; and a sampling
   goroutine waiting to send into the full buffer eventually has sent and
   is back in its select. *)
C40_PublishedEventuallyRendered ==
    /\ ([]<>CaughtUp) \/ ([]<><<DrawsNextPublished>>_vars)
    /\ BlockedOnFullBuffer ~> (\A i \in Alive : taskPc[i] = "select")

(* more Snapshots than the buffer holds were published, and the last of
   them has been received and drawn; the sampling goroutine is in its
   select *)
C40_Witness ==
    /\ Len(published) > ChanCap
    /\ delivered = published
    /\ lastDraw.n = Len(published)
    /\ consumerPc = "recv"
    /\ cpuView = CpuText(published[Len(published)])
    /\ \A i \in Alive : taskPc[i] = "select"

=============================================================================
